---- MODULE Spec2Model ----
(***************************************************************************)
(* Inbound message pipeline of the Mambo WhatsApp bot:                     *)
(*   app/api/twilio_webhook.py       handle_whatsapp_webhook, the deduper  *)
(*   app/services/message_handler.py MessageHandler                        *)
(*   app/services/onboarding_service.py OnboardingService                  *)
(*   app/services/user_service.py    UserService (the store access layer)  *)
(*                                                                         *)
(* Every webhook call is one handler coroutine.  A handler gives up the    *)
(* event loop at each await, so each action below is the code between two  *)
(* awaits: the awaited store or provider call followed by the synchronous  *)
(* code that runs when it returns.  The store (Supabase) and the provider  *)
(* (Twilio) are outside the repository: a call to either may fail, which   *)
(* the parameter ok of an action decides.                                  *)
(***************************************************************************)
EXTENDS Integers, Sequences, FiniteSets, TLC

\* ---------------------------------------------------------------- bounds
NumKeys == 4           \* keys given to a deduper in DedupSpec
MaxCapacity == 2       \* largest max_entries of a deduper in DedupSpec
MaxRestartMsgs == 4    \* webhook calls in one behaviour of RestartSpec
MaxSends == 2          \* send_text calls in one behaviour of SenderSpec
MaxFormMsgs == 3       \* webhook calls in one behaviour of FormSpec
MaxHandlerCalls == 5   \* step handler calls in one behaviour of HandlerSpec
NumHandlers == 2       \* concurrent webhook handler coroutines
MaxDeliveries == 3     \* webhook calls in one behaviour of Spec
MaxSeqMsgs == 6        \* webhook calls in one behaviour of SeqSpec
MaxFaults == 1         \* store or provider calls that fail in one behaviour
NumSids == 6           \* distinct MessageSid values (SM1, SM2, ...)
NumConcSids == 2       \* MessageSid values delivered under Spec
MaxConcMsgs == 2       \* webhook calls in one behaviour of ConcSpec
MaxStoreCalls == 4     \* record_incoming_message calls in one behaviour of StoreSpec

Handlers == 1..NumHandlers
Sids == 1..NumSids
Bodies == {"2", "Bob"}
Froms == {"whatsapp:+1555"}

\* ------------------------------------------------------ program constants
STEP_NAME == 0
STEP_DIET == 1
STEP_CUISINE == 2
STEP_ALLERGIES == 3
STEP_HOUSEHOLD == 4
STEP_COMPLETE == 5
MaxEntries == 4096     \* InMemoryDeduper() default capacity

\* Python None / SQL NULL where the other values are integers.
None == 0 - 1
\* Python None where the other values are rows (dicts); every row has id >= 1.
NoRow == [id |-> 0]
IsRow(r) == r.id # 0

\* dict.get(key) on a result dict: the default when the key is absent.
DictGet(d, k, default) == IF k \in DOMAIN d THEN d[k] ELSE default

\* user_service._make_result: "data" only when ok, "error" only when not.
MakeResult(ok, data, error) ==
    IF ok THEN [ok |-> TRUE, data |-> data] ELSE [ok |-> FALSE, error |-> error]

\* twilio_webhook._clean_phone on the From values of the model.
_clean_phone(from) ==
    CASE from = "whatsapp:+1555" -> "+1555"
      [] OTHER -> from

\* str.lower() on the bodies of the model.
Lower(b) ==
    CASE b = "Bob" -> "bob"
      [] b = "SKIP" -> "skip"
      [] b = "Skip" -> "skip"
      [] b = "Eggs" -> "eggs"
      [] b = "Non-Veg" -> "non-veg"
      [] b = "How to make dal?" -> "how to make dal?"
      [] b = "What to eat" -> "what to eat"
      [] b = "what can I make with eggs and rice" -> "what can i make with eggs and rice"
      [] OTHER -> b

\* str.strip() on the bodies of the model.
Strip(b) ==
    CASE b = " " -> ""
      [] b = " Bob " -> "Bob"
      [] b = " What to eat " -> "What to eat"
      [] b = " whatsdinner " -> "whatsdinner"
      [] OTHER -> b

\* A body of 65 characters and its first 64.
LongBody == "aaaaaaaaaaaaaaaaaaaaaaaaaaaaaaaaaaaaaaaaaaaaaaaaaaaaaaaaaaaaaaaaa"
LongBody64 == "aaaaaaaaaaaaaaaaaaaaaaaaaaaaaaaaaaaaaaaaaaaaaaaaaaaaaaaaaaaaaaaa"

\* body[:64] on the bodies of the model (only LongBody is longer than 64).
First64(b) ==
    CASE b = LongBody -> LongBody64
      [] OTHER -> b

\* _build_internal_message_from_twilio_form 110 and _extract_body 100:
\* the text a step handler sees for the form field Body.
BodyText(b) == Strip(Strip(b))

VARIABLES
    dq,         \* InMemoryDeduper._queue
    dset,       \* InMemoryDeduper._set
    incoming,   \* table incoming_messages: sequence of rows
    users,      \* table users: sequence of rows
    pc,         \* per handler: the await it is suspended at
    msg,        \* per handler: the request (message_sid, From, Body)
    rec,        \* per handler: result of record_incoming_message
    path,       \* per handler: route chosen by _process_single_message
    user,       \* per handler: the user row the onboarding code holds
    pending,    \* per handler: the reply it is about to send
    outcome,    \* per handler: how the request ended
    arrival,    \* per handler: the sender's stored step when the request came
    delivered,  \* webhook calls so far
    faults,     \* failed store / provider calls so far
    passes,     \* per sid: process_webhook + mark_incoming_processed passes
    replied,    \* per sid: a pass sent a reply successfully
    prompts,    \* per sid: name prompts sent successfully
    summaries,  \* profile summaries sent successfully
    attempted,  \* per sid: an outbound send was attempted
    classified, \* per sid: intent classification / recommendation was run
    result,     \* per handler: status the step handler returned
    cls,        \* one classify_intent call: its text, position and result
    snd,        \* one send_text call: its position, attempts and outcome
    sessions,   \* table sessions: sequence of rows
    rcm,        \* one get_meal_recommendations call: criteria, lists, result
    dcall,      \* the last direct call on an InMemoryDeduper and what it returned
    eqv         \* one stored step and reply body, and what each service writes for it

vars == <<dq, dset, incoming, users, pc, msg, rec, path, user, pending, outcome,
          arrival,
          delivered, faults, passes, replied, prompts, summaries,
          attempted, classified, result, cls, snd, sessions, rcm, dcall, eqv>>

storeVars == <<incoming, users>>
dedupVars == <<dq, dset>>
histVars == <<passes, replied, prompts, summaries, attempted, classified>>
serviceVars == <<snd, sessions, rcm, dcall, eqv>>
localVars == <<pc, msg, rec, path, user, pending, outcome, arrival, result>>

\* No user row for the sender.
NoUser == 0 - 2
NoMsg == [sid |-> 0, from |-> "", body |-> "", num_media |-> "0"]
NoRec == [ok |-> FALSE, error |-> "none"]

\* No call was made on the deduper yet; the module-level deduper has the
\* default capacity.
NoCall ==
    [op |-> "none", key |-> 0, ret |-> FALSE, max_entries |-> MaxEntries,
     before_queue |-> <<>>, before_set |-> {}, evicted |-> {}]

\* A store update that was not made.
NoPatch == [written |-> FALSE]

\* No step and body were given to the two services yet.
NoCompare ==
    [compared |-> FALSE, step |-> 0, body |-> "", handler |-> NoPatch,
     service |-> NoPatch]

\* No get_meal_recommendations call is running.
RcmIdle ==
    [pc |-> "idle", user_diet |-> "", diet |-> "", allergies |-> {},
     recs |-> <<>>, max_results |-> 0, filtered |-> <<>>, db |-> "none",
     stage |-> "none", out |-> <<>>]

\* No send_text call is running.
SndIdle ==
    [pc |-> "idle", user_id |-> 0 - 1, attempts |-> 0, sleeps |-> 0,
     outcomes |-> <<>>, ok |-> FALSE, error |-> "", twilio_sid |-> "",
     status |-> "", audit |-> "none", rows |-> 0, touched |-> FALSE]

\* Python's None where an intent label is expected.
NoIntent == ""

\* No classify_intent call is running.
ClsIdle ==
    [pc |-> "idle", text |-> "", client |-> FALSE, attempt |-> 0, calls |-> 0,
     sleeps |-> 0, outcomes |-> <<>>, result |-> NoIntent, stage |-> "none"]

Init ==
    /\ dq = <<>>
    /\ dset = {}
    /\ incoming = <<>>
    /\ users = <<>>
    /\ pc = [h \in Handlers |-> "idle"]
    /\ msg = [h \in Handlers |-> NoMsg]
    /\ rec = [h \in Handlers |-> NoRec]
    /\ path = [h \in Handlers |-> "none"]
    /\ user = [h \in Handlers |-> NoRow]
    /\ pending = [h \in Handlers |-> "none"]
    /\ outcome = [h \in Handlers |-> "none"]
    /\ arrival = [h \in Handlers |-> NoUser]
    /\ delivered = 0
    /\ faults = 0
    /\ passes = [s \in Sids |-> 0]
    /\ replied = [s \in Sids |-> FALSE]
    /\ prompts = [s \in Sids |-> 0]
    /\ summaries = 0
    /\ attempted = [s \in Sids |-> FALSE]
    /\ classified = [s \in Sids |-> FALSE]
    /\ result = [h \in Handlers |-> "none"]
    /\ cls = ClsIdle
    /\ snd = SndIdle
    /\ sessions = <<>>
    /\ rcm = RcmIdle
    /\ dcall = NoCall
    /\ eqv = NoCompare

\* A failing call uses up one unit of the fault budget.
Fault(ok) ==
    /\ ok \/ faults < MaxFaults
    /\ faults' = IF ok THEN faults ELSE faults + 1

\* ------------------------------------------------------- InMemoryDeduper
DeduperContains(set, key) == key \in set

\* InMemoryDeduper.add: the new <<queue, set>>.
DeduperAdd(queue, set, key) ==
    IF key \in set
    THEN <<queue, set>>
    ELSE LET q1 == Append(queue, key)
             s1 == set \cup {key}
         IN IF Len(q1) > MaxEntries
            THEN <<Tail(q1), s1 \ {Head(q1)}>>
            ELSE <<q1, s1>>

\* An eviction that leaves the old key in the set.
DeduperAddKeepsSet(queue, set, key, max_entries) ==
    IF key \in set
    THEN <<queue, set, {}>>
    ELSE LET q1 == Append(queue, key)
             s1 == set \cup {key}
         IN IF Len(q1) > max_entries
            THEN <<Tail(q1), s1, {Head(q1)}>>
            ELSE <<q1, s1, {}>>

\* InMemoryDeduper.add of a deduper built with max_entries: the new
\* <<queue, set>> and the key evicted, if any.
DeduperAddCap(queue, set, key, max_entries) ==
    IF key \in set
    THEN <<queue, set, {}>>
    ELSE LET q1 == Append(queue, key)
             s1 == set \cup {key}
         IN IF Len(q1) > max_entries
            THEN <<Tail(q1), s1 \ {Head(q1)}, {Head(q1)}>>
            ELSE <<q1, s1, {}>>

\* An add that always reports a new key.
AddReturnsTrue(set, key) == TRUE

\* InMemoryDeduper.add 46-47, 54: False for a key in the set, else True.
AddReturns(set, key) == key \notin set

\* ------------------------------------------------ table incoming_messages
IncomingWithSid(tbl, mid) == {i \in DOMAIN tbl : tbl[i].message_sid = mid}

FirstOf(tbl, S) == tbl[CHOOSE i \in S : \A j \in S : i <= j]

\* The store's unique constraint on incoming_messages.message_sid: an
\* insert of mid violates it when a row with mid exists.
SidTaken(tbl, mid) == IncomingWithSid(tbl, mid) # {}

\* The insert as it would act on a table without the constraint.
TblInsertIncomingNoConstraint(tbl, mid, uid) ==
    Append(tbl, [id |-> Len(tbl) + 1, message_sid |-> mid,
                 user_id |-> uid, processed |-> FALSE])

\* tbl.insert({...}).execute() of record_incoming_message: the insert raises
\* on a constraint violation and the except branch only selects.
\* The new table, or the table unchanged when the insert raised.
TblInsertIncoming(tbl, mid, uid) ==
    IF SidTaken(tbl, mid)
    THEN tbl
    ELSE Append(tbl, [id |-> Len(tbl) + 1, message_sid |-> mid,
                      user_id |-> uid, processed |-> FALSE])

\* A conflict reported to the caller as a failure.
RecordIncomingResConflictFails(tbl, mid, dbok, single) ==
    IF ~dbok \/ SidTaken(tbl, mid)
    THEN MakeResult(FALSE, NoRow, "db_error")
    ELSE MakeResult(TRUE,
                    [shape |-> "list",
                     row |-> [id |-> Len(tbl) + 1, message_sid |-> mid,
                              user_id |-> None, processed |-> FALSE]],
                    "")

\* UserService.record_incoming_message: insert, and on an exception select
\* the existing row, with maybe_single() (single) or, when that raises too,
\* with limit(1).  dbok = FALSE: every call to the store raises.
\* The result dict never has a "created" key.
RecordIncomingRes(tbl, mid, dbok, single) ==
    IF ~dbok
    THEN MakeResult(FALSE, NoRow, "db_error")
    ELSE IF ~SidTaken(tbl, mid)
         THEN MakeResult(TRUE,
                         [shape |-> "list",
                          row |-> [id |-> Len(tbl) + 1, message_sid |-> mid,
                                   user_id |-> None, processed |-> FALSE]],
                         "")
         ELSE MakeResult(TRUE,
                         [shape |-> IF single THEN "dict" ELSE "list",
                          row |-> FirstOf(tbl, IncomingWithSid(tbl, mid))],
                         "")

\* UserService.mark_incoming_processed: update ... eq(message_sid, mid).
MarkIncomingProcessed(tbl, mid) ==
    [i \in DOMAIN tbl |->
        IF tbl[i].message_sid = mid
        THEN [tbl[i] EXCEPT !.processed = TRUE]
        ELSE tbl[i]]

\* twilio_webhook.py 312-326: the processed flag the webhook reads from rec.
ProcessedFlag(r) ==
    IF r.ok /\ ~DictGet(r, "created", FALSE)
    THEN LET existing_row == DictGet(r, "data", [shape |-> "none", row |-> NoRow])
         IN existing_row.shape = "dict" /\ existing_row.row.processed
    ELSE FALSE

\* ------------------------------------------------------------ table users
UsersWithWid(tbl, wid) == {i \in DOMAIN tbl : tbl[i].whatsapp_id = wid}

\* create_user's user_data as a row: name "Guest", onboarding_step 0.
NewUserRow(id, wid) ==
    [id |-> id, whatsapp_id |-> wid, name |-> "Guest", diet |-> "",
     cuisine_pref |-> "", allergies |-> <<>>, household_size |-> "",
     onboarding_step |-> STEP_NAME]

\* A plain insert into a table without the unique whatsapp_id.
InsertUserAlways(tbl, wid) == Append(tbl, NewUserRow(Len(tbl) + 1, wid))

\* tbl.upsert(user_data, on_conflict="whatsapp_id"): insert the row, or on a
\* conflict overwrite the columns of user_data (name, onboarding_step).
UpsertUser(tbl, wid) ==
    IF UsersWithWid(tbl, wid) = {}
    THEN Append(tbl, NewUserRow(Len(tbl) + 1, wid))
    ELSE [i \in DOMAIN tbl |->
            IF tbl[i].whatsapp_id = wid
            THEN [tbl[i] EXCEPT !.name = "Guest", !.onboarding_step = STEP_NAME]
            ELSE tbl[i]]

\* UserService.update_user_fields: update(patch).eq("id", uid).
UpdateUserFields(tbl, uid, patch) ==
    [i \in DOMAIN tbl |->
        IF tbl[i].id = uid
        THEN [f \in DOMAIN tbl[i] |->
                IF f \in DOMAIN patch THEN patch[f] ELSE tbl[i][f]]
        ELSE tbl[i]]

\* An update that reaches the table although the call reports a failure.
StoreUpdateApplied(tbl, uid, patch, ok) == UpdateUserFields(tbl, uid, patch)

\* update_user_fields through _call_db: a call that raises or comes back
\* not ok has written nothing.
StoreUpdate(tbl, uid, patch, ok) ==
    IF ok THEN UpdateUserFields(tbl, uid, patch) ELSE tbl

\* The status a step handler returns after its update.
HandlerStatus(ok) == IF ok THEN "ok" ELSE "error"

\* UserService.get_user_by_whatsapp_id: the row comes back under "data";
\* the result has no "user" key.
GetUserByWhatsappId(tbl, wid, dbok) ==
    IF dbok /\ UsersWithWid(tbl, wid) # {}
    THEN MakeResult(TRUE, FirstOf(tbl, UsersWithWid(tbl, wid)), "")
    ELSE MakeResult(FALSE, NoRow, "user_not_found")

\* OnboardingService.get_user_onboarding_step.
GetUserOnboardingStep(tbl, wid, dbok) ==
    LET res == GetUserByWhatsappId(tbl, wid, dbok)
        user_row == DictGet(res, "user", NoRow)
    IN IF ~res.ok THEN None
       ELSE IF ~IsRow(user_row) THEN None
       ELSE IF user_row.onboarding_step = None THEN STEP_COMPLETE
       ELSE user_row.onboarding_step

\* A route that sends a sender without a stored step past onboarding.
RouteOfKnownOnly(user_step) ==
    IF user_step # None /\ user_step < 5 THEN "onboarding" ELSE "post_onboarding"

\* MessageHandler._process_single_message 128: the route for a step.
RouteOf(user_step) ==
    IF user_step = None \/ user_step < 5 THEN "onboarding" ELSE "post_onboarding"

\* ------------------------------------------------- onboarding answers
\* body.lower().replace(" ", "_") on the bodies of the model (none has a space).
Snake(b) == Lower(b)

\* body.replace(",", " ").split() on the bodies of the model (one token each).
Tokens(b) == IF b = "" THEN <<>> ELSE <<b>>

\* "none" in body.lower() on the bodies of the model.
ContainsNone(b) == Lower(b) = "none"

\* A name taken from the body as it is, "skip" in lower case only.
NameOfExact(body) == IF body = "skip" THEN "Guest" ELSE body

\* OnboardingService._handle_name 375.
NameOf(body) == IF Lower(body) = "skip" THEN "Guest" ELSE First64(body)

\* OnboardingService._handle_diet 440-448.
DietOf(body) ==
    CASE Lower(body) \in {"1", "veg"} -> "veg"
      [] Lower(body) \in {"2", "non-veg"} -> "non-veg"
      [] Lower(body) \in {"3", "both"} -> "both"
      [] OTHER -> "both"

CuisineList ==
    <<"north_indian", "south_indian", "chinese", "italian", "punjabi",
      "gujarati", "bengali", "international", "surprise">>

Digits == <<"1", "2", "3", "4", "5", "6", "7", "8", "9">>

IsDigit(b) == \E i \in DOMAIN Digits : Digits[i] = b
DigitValue(b) == CHOOSE i \in DOMAIN Digits : Digits[i] = b

\* OnboardingService._handle_cuisine 501-519.
CuisineOf(body) ==
    IF IsDigit(body) THEN CuisineList[DigitValue(body)]
    ELSE IF body # "" THEN Snake(body) ELSE "surprise"

AllergenList ==
    <<"none", "dairy", "eggs", "peanut", "tree_nuts", "wheat_gluten", "soy",
      "fish", "shellfish">>

AllergenOf(p) ==
    IF IsDigit(p) /\ DigitValue(p) >= 2 THEN AllergenList[DigitValue(p)] ELSE Lower(p)

\* OnboardingService._handle_allergies 553-570.
AllergiesOf(body) ==
    IF body = "" \/ body = "1" \/ ContainsNone(body)
    THEN <<>>
    ELSE [i \in DOMAIN Tokens(body) |-> AllergenOf(Tokens(body)[i])]

HouseholdList == <<"single", "couple", "small_family", "big_family", "shared">>

\* OnboardingService._handle_household 602-612.
HouseholdOf(body) ==
    IF IsDigit(body) /\ DigitValue(body) <= 5 THEN HouseholdList[DigitValue(body)]
    ELSE IF body # "" THEN Snake(body) ELSE "single"

\* A patch that moves the step and leaves the answer for a later write.
StepPatchStepOnly(step, body) ==
    [onboarding_step |-> IF step = STEP_HOUSEHOLD THEN None ELSE step + 1]

\* The update a step handler of OnboardingService sends to the store:
\* the answered field and the next onboarding_step in one patch.
StepPatch(step, body) ==
    CASE step = STEP_NAME -> [name |-> NameOf(body), onboarding_step |-> STEP_DIET]
      [] step = STEP_DIET -> [diet |-> DietOf(body), onboarding_step |-> STEP_CUISINE]
      [] step = STEP_CUISINE ->
            [cuisine_pref |-> CuisineOf(body), onboarding_step |-> STEP_ALLERGIES]
      [] step = STEP_ALLERGIES ->
            [allergies |-> AllergiesOf(body), onboarding_step |-> STEP_HOUSEHOLD]
      [] OTHER -> [household_size |-> HouseholdOf(body), onboarding_step |-> None]

\* The reply a step handler sends after a successful update.
StepReply(step) ==
    CASE step = STEP_NAME -> "ask_diet"
      [] step = STEP_DIET -> "ask_cuisine"
      [] step = STEP_CUISINE -> "ask_allergies"
      [] step = STEP_ALLERGIES -> "ask_household"
      [] OTHER -> "summary"

\* handle_onboarding_message 316-326: the step it dispatches on.
DispatchStep(row) ==
    IF row.onboarding_step = None THEN STEP_COMPLETE ELSE row.onboarding_step

\* UserService.process_onboarding_step 656-749: its patch for a step.
ServiceStepPatch(step, body) ==
    CASE step = 0 ->
            [name |-> IF Lower(body) = "skip" \/ body = "" THEN "Guest"
                      ELSE First64(body),
             onboarding_step |-> 1]
      [] step = 1 ->
            [diet |-> CASE Lower(body) = "1" -> "veg"
                        [] Lower(body) = "2" -> "non-veg"
                        [] Lower(body) = "3" -> "both"
                        [] OTHER -> IF body # "" THEN Lower(body) ELSE "both",
             onboarding_step |-> 2]
      [] step = 2 ->
            [cuisine_pref |-> IF body # "" THEN Snake(body) ELSE "surprise",
             onboarding_step |-> 3]
      [] step = 3 -> [allergies |-> AllergiesOf(body), onboarding_step |-> 4]
      [] OTHER ->
            [household_size |->
                IF IsDigit(Lower(body)) /\ DigitValue(Lower(body)) <= 5
                THEN HouseholdList[DigitValue(Lower(body))]
                ELSE IF body # "" THEN Snake(body) ELSE "single",
             onboarding_step |-> None]

\* --------------------------------------------------- a webhook call arrives
\* Values of the form field NumMedia: a count, and text that is no number.
NumMedias == {"0", "abc"}

\* int(s) returns for s (it raises ValueError otherwise).
IsNumeric(s) == s \in {"0", "1", "2"}

\* int(s) for numeric s.
IntOf(s) == CASE s = "1" -> 1 [] s = "2" -> 2 [] OTHER -> 0

\* handle_whatsapp_webhook 221-225: NumMedia parsed, 0 when int() raises.
DeclaredNumMedia(nm) == IF IsNumeric(nm) THEN IntOf(nm) ELSE 0

\* _build_internal_message_from_twilio_form 113:
\* declared_num_media or int(form.get("NumMedia") or 0) raises when the
\* declared count is 0 and NumMedia is not a number.
BuildRaises(nm) == DeclaredNumMedia(nm) = 0 /\ nm # "" /\ ~IsNumeric(nm)

\* A MessageSid field that is missing or empty.
NoSid == 0

\* handle_whatsapp_webhook 235-240: the MessageSid of the form, or an id
\* synthesized from the clock, which no earlier request carried.
MessageSidOf(field, fresh) == IF field = NoSid THEN fresh ELSE field

\* The onboarding_step column of the row stored for wid (NoUser: no row).
StoredStep(tbl, wid) ==
    IF UsersWithWid(tbl, wid) = {} THEN NoUser
    ELSE FirstOf(tbl, UsersWithWid(tbl, wid)).onboarding_step

\* The HTTP layer starts handle_whatsapp_webhook for a request; the handler
\* awaits request.form() before it looks at the deduper.  Handlers are
\* interchangeable, so a request takes the lowest idle one.
DeliverForm(h, sid, from, body, nm) ==
    /\ pc[h] = "idle"
    /\ \A g \in Handlers : g < h => pc[g] # "idle"
    /\ pc' = [pc EXCEPT ![h] = "dedup_check"]
    /\ msg' = [msg EXCEPT ![h] =
                  [sid |-> sid, from |-> from, body |-> body, num_media |-> nm]]
    /\ outcome' = [outcome EXCEPT ![h] = "none"]
    /\ arrival' = [arrival EXCEPT ![h] = StoredStep(users, _clean_phone(from))]
    /\ delivered' = delivered + 1
    /\ UNCHANGED <<dedupVars, storeVars, rec, path, user, pending, faults, histVars>>
    /\ UNCHANGED <<result, cls, serviceVars>>

\* A request of Twilio's usual form: NumMedia "0".
Deliver(h, sid, from, body) == DeliverForm(h, sid, from, body, "0")

\* twilio_webhook.py 242-262: the in-memory duplicate check, then
\* _build_internal_message_from_twilio_form; when that raises, the except
\* branch of the webhook (427-443) answers with empty TwiML.
DedupCheck(h) ==
    /\ pc[h] = "dedup_check"
    /\ IF DeduperContains(dset, msg[h].sid)
       THEN /\ pc' = [pc EXCEPT ![h] = "idle"]
            /\ msg' = [msg EXCEPT ![h] = NoMsg]
            /\ outcome' = [outcome EXCEPT ![h] = "duplicate_in_memory"]
            /\ arrival' = [arrival EXCEPT ![h] = NoUser]
       ELSE IF BuildRaises(msg[h].num_media)
       THEN /\ pc' = [pc EXCEPT ![h] = "idle"]
            /\ msg' = [msg EXCEPT ![h] = NoMsg]
            /\ outcome' = [outcome EXCEPT ![h] = "aborted"]
            /\ arrival' = [arrival EXCEPT ![h] = NoUser]
       ELSE /\ pc' = [pc EXCEPT ![h] = "record"]
            /\ UNCHANGED <<msg, outcome, arrival>>
    /\ UNCHANGED <<dedupVars, storeVars, rec, path, user, pending, delivered,
                   faults, histVars>>
    /\ UNCHANGED <<result, cls, serviceVars>>

\* twilio_webhook.py 271-310: resolve the user id (user_res has no "user"
\* key, so resolved_user_id is None) and record the incoming message.
RecordIncoming(h, ok, single) ==
    /\ pc[h] = "record"
    /\ Fault(ok /\ single)
    /\ LET phone_clean == _clean_phone(msg[h].from)
           user_res == GetUserByWhatsappId(users, phone_clean, ok)
           found == DictGet(user_res, "user", NoRow)
           resolved_user_id == IF user_res.ok /\ IsRow(found) THEN found.id ELSE None
       IN /\ rec' = [rec EXCEPT ![h] =
                        RecordIncomingRes(incoming, msg[h].sid, ok, single)]
          /\ incoming' = IF ok
                         THEN TblInsertIncoming(incoming, msg[h].sid, resolved_user_id)
                         ELSE incoming
    /\ pc' = [pc EXCEPT ![h] = "after_record"]
    /\ UNCHANGED <<dedupVars, users, msg, path, user, pending, outcome, arrival,
                   delivered, histVars>>
    /\ UNCHANGED <<result, cls, serviceVars>>

\* twilio_webhook.py 312-348: acknowledge a message the store has as
\* processed, else add the sid to the deduper and go on to process it.
AfterRecord(h) ==
    /\ pc[h] = "after_record"
    /\ IF ProcessedFlag(rec[h])
       THEN /\ pc' = [pc EXCEPT ![h] = "idle"]
            /\ msg' = [msg EXCEPT ![h] = NoMsg]
            /\ outcome' = [outcome EXCEPT ![h] = "duplicate_in_db"]
            /\ arrival' = [arrival EXCEPT ![h] = NoUser]
            /\ UNCHANGED dedupVars
       ELSE /\ pc' = [pc EXCEPT ![h] = "process"]
            /\ dq' = DeduperAdd(dq, dset, msg[h].sid)[1]
            /\ dset' = DeduperAdd(dq, dset, msg[h].sid)[2]
            /\ UNCHANGED <<msg, outcome, arrival>>
    /\ rec' = [rec EXCEPT ![h] = NoRec]
    /\ UNCHANGED <<storeVars, path, user, pending, delivered, faults, histVars>>
    /\ UNCHANGED <<result, cls, serviceVars>>

\* MessageHandler._process_single_message 111-128: read the onboarding step
\* and choose the route.
ProcessSingleMessage(h, ok) ==
    /\ pc[h] = "process"
    /\ Fault(ok)
    /\ LET sender_phone == _clean_phone(msg[h].from)
           user_step == GetUserOnboardingStep(users, sender_phone, ok)
       IN path' = [path EXCEPT ![h] = RouteOf(user_step)]
    /\ pc' = [pc EXCEPT ![h] = "routed"]
    /\ UNCHANGED <<dedupVars, storeVars, msg, rec, user, pending, outcome, arrival,
                   delivered, histVars>>
    /\ UNCHANGED <<result, cls, serviceVars>>

\* The routed call.  Onboarding: handle_onboarding_message 282-328 fetches
\* the user; without a user it goes to start_onboarding, with one to the
\* handler of the user's step (a completed user gets status "complete" and
\* no reply).  Post-onboarding: _handle_post_onboarding_message builds a reply.
HandleRouted(h, ok) ==
    /\ pc[h] = "routed"
    /\ Fault(ok)
    /\ IF path[h] = "onboarding"
       THEN LET user_res == GetUserByWhatsappId(users, _clean_phone(msg[h].from), ok)
                u == IF user_res.ok THEN DictGet(user_res, "user", NoRow) ELSE NoRow
            IN /\ user' = [user EXCEPT ![h] = u]
               /\ pc' = [pc EXCEPT ![h] =
                            IF ~IsRow(u) THEN "create_user"
                            ELSE IF DispatchStep(u) = STEP_COMPLETE THEN "mark"
                            ELSE "step_handler"]
               /\ UNCHANGED <<pending, classified>>
       ELSE /\ pending' = [pending EXCEPT ![h] = "post_reply"]
            /\ classified' = [classified EXCEPT ![msg[h].sid] =
                                 @ \/ BodyText(msg[h].body) # ""]
            /\ pc' = [pc EXCEPT ![h] = "send"]
            /\ UNCHANGED user
    /\ path' = [path EXCEPT ![h] = "none"]
    /\ UNCHANGED <<dedupVars, storeVars, msg, rec, outcome, arrival, delivered,
                   passes, replied, prompts, summaries, attempted, result>>
    /\ UNCHANGED <<cls, serviceVars>>

\* The store write of the onboarding path.  start_onboarding 199-221 calls
\* create_user (an upsert on whatsapp_id); a step handler writes its patch
\* and, when the update fails, reports an error (only _handle_household
\* still sends a message then).
OnboardingWrite(h, ok) ==
    /\ pc[h] \in {"create_user", "step_handler"}
    /\ Fault(ok)
    /\ IF pc[h] = "create_user"
       THEN LET wid == _clean_phone(msg[h].from)
                tbl == UpsertUser(users, wid)
            IN IF ok
               THEN /\ users' = tbl
                    /\ user' = [user EXCEPT ![h] = FirstOf(tbl, UsersWithWid(tbl, wid))]
                    /\ pc' = [pc EXCEPT ![h] = "set_step"]
                    /\ UNCHANGED <<pending, result>>
               ELSE /\ pc' = [pc EXCEPT ![h] = "create_select"]
                    /\ UNCHANGED <<users, user, pending, result>>
       ELSE LET step == DispatchStep(user[h])
                body == BodyText(msg[h].body)
            IN /\ user' = [user EXCEPT ![h] = NoRow]
               /\ IF step = STEP_NAME /\ body = ""
                  THEN /\ ok
                       /\ pending' = [pending EXCEPT ![h] = "ask_what_call"]
                       /\ result' = [result EXCEPT ![h] = "ok"]
                       /\ pc' = [pc EXCEPT ![h] = "send"]
                       /\ UNCHANGED users
                  ELSE /\ users' = StoreUpdate(users, user[h].id,
                                               StepPatch(step, body), ok)
                       /\ result' = [result EXCEPT ![h] = HandlerStatus(ok)]
                       /\ IF ok
                          THEN /\ pending' = [pending EXCEPT ![h] = StepReply(step)]
                               /\ pc' = [pc EXCEPT ![h] = "send"]
                          ELSE IF step = STEP_HOUSEHOLD
                          THEN /\ pending' = [pending EXCEPT ![h] = "internal_error_user"]
                               /\ pc' = [pc EXCEPT ![h] = "send"]
                          ELSE /\ pc' = [pc EXCEPT ![h] = "mark"]
                               /\ UNCHANGED pending
    /\ UNCHANGED <<dedupVars, incoming, msg, rec, path, outcome, arrival, delivered, histVars>>
    /\ UNCHANGED <<cls, serviceVars>>

\* UserService.create_user 310-355: the upsert gave no row, so select the
\* user by whatsapp_id; without a row start_onboarding returns an error
\* and nothing is sent.
CreateUserSelect(h, ok) ==
    /\ pc[h] = "create_select"
    /\ Fault(ok)
    /\ LET wid == _clean_phone(msg[h].from)
           found == ok /\ UsersWithWid(users, wid) # {}
       IN IF found
          THEN /\ user' = [user EXCEPT ![h] = FirstOf(users, UsersWithWid(users, wid))]
               /\ pc' = [pc EXCEPT ![h] = "set_step"]
          ELSE /\ pc' = [pc EXCEPT ![h] = "mark"]
               /\ UNCHANGED user
    /\ UNCHANGED <<dedupVars, storeVars, msg, rec, path, pending, outcome, arrival,
                   delivered, histVars>>
    /\ UNCHANGED <<result, cls, serviceVars>>

\* start_onboarding 223-244: set onboarding_step to STEP_NAME, best effort.
SetStep(h, ok) ==
    /\ pc[h] = "set_step"
    /\ Fault(ok)
    /\ users' = IF ok
                THEN UpdateUserFields(users, user[h].id, [onboarding_step |-> STEP_NAME])
                ELSE users
    /\ user' = [user EXCEPT ![h] = NoRow]
    /\ pending' = [pending EXCEPT ![h] = "ask_name"]
    /\ pc' = [pc EXCEPT ![h] = "send"]
    /\ UNCHANGED <<dedupVars, incoming, msg, rec, path, outcome, arrival, delivered, histVars>>
    /\ UNCHANGED <<result, cls, serviceVars>>

\* OnboardingService._send_text / TwilioMessageHandler.send_text: the reply.
\* A failed send is reported in the result only; the caller goes on.
SendReply(h, ok) ==
    /\ pc[h] = "send"
    /\ Fault(ok)
    /\ replied' = [replied EXCEPT ![msg[h].sid] = @ \/ ok]
    /\ attempted' = [attempted EXCEPT ![msg[h].sid] = TRUE]
    /\ prompts' = [prompts EXCEPT ![msg[h].sid] =
                      IF ok /\ pending[h] = "ask_name" THEN @ + 1 ELSE @]
    /\ summaries' = IF ok /\ pending[h] = "summary" THEN summaries + 1 ELSE summaries
    /\ pending' = [pending EXCEPT ![h] = "none"]
    /\ pc' = [pc EXCEPT ![h] = "mark"]
    /\ UNCHANGED <<dedupVars, storeVars, msg, rec, path, user, outcome, arrival,
                   delivered, passes, classified>>
    /\ UNCHANGED <<result, cls, serviceVars>>

\* twilio_webhook.py 398-425: process_webhook returned, so the webhook calls
\* mark_incoming_processed whatever the result says, then acknowledges.
MarkProcessed(h, ok) ==
    /\ pc[h] = "mark"
    /\ Fault(ok)
    /\ incoming' = IF ok THEN MarkIncomingProcessed(incoming, msg[h].sid) ELSE incoming
    /\ passes' = [passes EXCEPT ![msg[h].sid] = @ + 1]
    /\ pc' = [pc EXCEPT ![h] = "idle"]
    /\ msg' = [msg EXCEPT ![h] = NoMsg]
    /\ user' = [user EXCEPT ![h] = NoRow]
    /\ outcome' = [outcome EXCEPT ![h] = "processed"]
    /\ arrival' = [arrival EXCEPT ![h] = NoUser]
    /\ result' = [result EXCEPT ![h] = "none"]
    /\ UNCHANGED <<dedupVars, users, rec, path, pending, delivered,
                   replied, prompts, summaries, attempted, classified>>
    /\ UNCHANGED <<cls, serviceVars>>

\* UserService.process_onboarding_step 599-762, called for one message:
\* fetch the user (reading "data"), else create it; then write the patch of
\* the user's step.  After create_user it reads .get on the list the upsert
\* returned and raises, so a new user is created and nothing else happens.
ProcessOnboardingStep(wid, body) ==
    /\ LET user_res == GetUserByWhatsappId(users, wid, TRUE)
       IN IF ~user_res.ok
          THEN users' = UpsertUser(users, wid)
          ELSE LET u == user_res.data
               IN /\ u.onboarding_step # None
                  /\ users' = UpdateUserFields(users, u.id,
                                    ServiceStepPatch(u.onboarding_step, body))
    /\ UNCHANGED <<dedupVars, incoming, localVars, delivered, faults, histVars>>
    /\ UNCHANGED <<cls, serviceVars>>

\* Concurrent handlers, failing store and provider calls, redeliveries.
Next ==
    \/ \E h \in Handlers, sid \in 1..NumConcSids, from \in Froms, body \in Bodies :
          delivered < MaxDeliveries /\ Deliver(h, sid, from, body)
    \/ \E h \in Handlers : DedupCheck(h)
    \/ \E h \in Handlers, ok \in BOOLEAN, single \in BOOLEAN : RecordIncoming(h, ok, single)
    \/ \E h \in Handlers : AfterRecord(h)
    \/ \E h \in Handlers, ok \in BOOLEAN : ProcessSingleMessage(h, ok)
    \/ \E h \in Handlers, ok \in BOOLEAN : HandleRouted(h, ok)
    \/ \E h \in Handlers, ok \in BOOLEAN : OnboardingWrite(h, ok)
    \/ \E h \in Handlers, ok \in BOOLEAN : CreateUserSelect(h, ok)
    \/ \E h \in Handlers, ok \in BOOLEAN : SetStep(h, ok)
    \/ \E h \in Handlers, ok \in BOOLEAN : SendReply(h, ok)
    \/ \E h \in Handlers, ok \in BOOLEAN : MarkProcessed(h, ok)

Spec == Init /\ [][Next]_vars

AllIdle == \A h \in Handlers : pc[h] = "idle"

\* Messages handled one at a time, every store and provider call succeeding:
\* a request arrives only when no handler is running, and carries either a
\* fresh MessageSid or one delivered before.
SeqNext ==
    \/ \E sid \in Sids, from \in Froms, body \in Bodies :
          /\ delivered < MaxSeqMsgs
          /\ sid <= delivered + 1
          /\ AllIdle
          /\ Deliver(1, sid, from, body)
    \/ \E h \in Handlers : DedupCheck(h)
    \/ \E h \in Handlers : RecordIncoming(h, TRUE, TRUE)
    \/ \E h \in Handlers : AfterRecord(h)
    \/ \E h \in Handlers : ProcessSingleMessage(h, TRUE)
    \/ \E h \in Handlers : HandleRouted(h, TRUE)
    \/ \E h \in Handlers : OnboardingWrite(h, TRUE)
    \/ \E h \in Handlers : SetStep(h, TRUE)
    \/ \E h \in Handlers : SendReply(h, TRUE)
    \/ \E h \in Handlers : MarkProcessed(h, TRUE)
    \/ \E from \in Froms, body \in Bodies :
          AllIdle /\ ProcessOnboardingStep(_clean_phone(from), body)

SeqSpec == Init /\ [][SeqNext]_vars

\* Concurrent handlers for messages with distinct MessageSids, every call
\* succeeding; process_onboarding_step is called between requests.
ConcNext ==
    \/ \E h \in Handlers, from \in Froms, body \in Bodies :
          /\ delivered < MaxConcMsgs
          /\ Deliver(h, delivered + 1, from, body)
    \/ \E h \in Handlers : DedupCheck(h)
    \/ \E h \in Handlers : RecordIncoming(h, TRUE, TRUE)
    \/ \E h \in Handlers : AfterRecord(h)
    \/ \E h \in Handlers : ProcessSingleMessage(h, TRUE)
    \/ \E h \in Handlers : HandleRouted(h, TRUE)
    \/ \E h \in Handlers : OnboardingWrite(h, TRUE)
    \/ \E h \in Handlers : SetStep(h, TRUE)
    \/ \E h \in Handlers : SendReply(h, TRUE)
    \/ \E h \in Handlers : MarkProcessed(h, TRUE)
    \/ \E from \in Froms, body \in Bodies :
          AllIdle /\ ProcessOnboardingStep(_clean_phone(from), body)

ConcSpec == Init /\ [][ConcNext]_vars

\* Requests with missing or malformed fields, handled one at a time, every
\* store and provider call succeeding: MessageSid missing, fresh or seen
\* before, Body empty or not, NumMedia a number or not.
FormNext ==
    \/ \E field \in {NoSid} \cup Sids, from \in Froms, body \in {"", "Bob"},
          nm \in NumMedias :
          /\ delivered < MaxFormMsgs
          /\ field <= delivered + 1
          /\ AllIdle
          /\ DeliverForm(1, MessageSidOf(field, delivered + 1), from, body, nm)
    \/ \E h \in Handlers : DedupCheck(h)
    \/ \E h \in Handlers : RecordIncoming(h, TRUE, TRUE)
    \/ \E h \in Handlers : AfterRecord(h)
    \/ \E h \in Handlers : ProcessSingleMessage(h, TRUE)
    \/ \E h \in Handlers : HandleRouted(h, TRUE)
    \/ \E h \in Handlers : OnboardingWrite(h, TRUE)
    \/ \E h \in Handlers : SetStep(h, TRUE)
    \/ \E h \in Handlers : SendReply(h, TRUE)
    \/ \E h \in Handlers : MarkProcessed(h, TRUE)

FormSpec == Init /\ [][FormNext]_vars

\* The process restarts between two requests: the module is loaded again
\* and deduper = InMemoryDeduper() is empty; the store keeps its rows.
Restart ==
    /\ AllIdle
    /\ dset # {}
    /\ dq' = <<>>
    /\ dset' = {}
    /\ UNCHANGED <<storeVars, localVars, delivered, faults, histVars, cls,
                   serviceVars>>

\* Requests handled one at a time, the process restarting between them;
\* every store and provider call succeeds, and the select of an existing
\* incoming_messages row answers with a single row or, maybe_single()
\* raising, with a one-element list.
RestartNext ==
    \/ \E sid \in Sids, from \in Froms, body \in Bodies :
          /\ delivered < MaxRestartMsgs
          /\ sid <= delivered + 1
          /\ AllIdle
          /\ Deliver(1, sid, from, body)
    \/ \E h \in Handlers : DedupCheck(h)
    \/ \E h \in Handlers, single \in BOOLEAN : RecordIncoming(h, TRUE, single)
    \/ \E h \in Handlers : AfterRecord(h)
    \/ \E h \in Handlers : ProcessSingleMessage(h, TRUE)
    \/ \E h \in Handlers : HandleRouted(h, TRUE)
    \/ \E h \in Handlers : OnboardingWrite(h, TRUE)
    \/ \E h \in Handlers : SetStep(h, TRUE)
    \/ \E h \in Handlers : SendReply(h, TRUE)
    \/ \E h \in Handlers : MarkProcessed(h, TRUE)
    \/ Restart

RestartSpec == Init /\ [][RestartNext]_vars

\* --------------------------------- record_incoming_message, call by call
\* A caller enters UserService.record_incoming_message(mid, None, from, raw).
CallRecordIncoming(h, sid, from) ==
    /\ pc[h] = "idle"
    /\ \A g \in Handlers : g < h => pc[g] # "idle"
    /\ pc' = [pc EXCEPT ![h] = "rec_insert"]
    /\ msg' = [msg EXCEPT ![h] =
                  [sid |-> sid, from |-> from, body |-> "", num_media |-> "0"]]
    /\ delivered' = delivered + 1
    /\ UNCHANGED <<dedupVars, storeVars, rec, path, user, pending, outcome,
                   arrival, faults, histVars>>
    /\ UNCHANGED <<result, cls, serviceVars>>

\* _fn, the try branch: the insert.  It raises on the unique constraint,
\* and then the except branch selects; with the store down (ok = FALSE)
\* every call of _fn raises and _call_db returns the error result.
RecInsert(h, ok) ==
    /\ pc[h] = "rec_insert"
    /\ Fault(ok)
    /\ incoming' = IF ok
                   THEN TblInsertIncoming(incoming, msg[h].sid, None)
                   ELSE incoming
    /\ IF ok /\ SidTaken(incoming, msg[h].sid)
       THEN /\ pc' = [pc EXCEPT ![h] = "rec_select"]
            /\ UNCHANGED rec
       ELSE /\ pc' = [pc EXCEPT ![h] = "rec_return"]
            /\ rec' = [rec EXCEPT ![h] =
                          RecordIncomingRes(incoming, msg[h].sid, ok, TRUE)]
    /\ UNCHANGED <<dedupVars, users, msg, path, user, pending, outcome,
                   arrival, delivered, histVars>>
    /\ UNCHANGED <<result, cls, serviceVars>>

\* _fn, the except branch: select the existing row with maybe_single(), or
\* with limit(1) when maybe_single() raises.
RecSelect(h, single) ==
    /\ pc[h] = "rec_select"
    /\ Fault(single)
    /\ rec' = [rec EXCEPT ![h] =
                  RecordIncomingRes(incoming, msg[h].sid, TRUE, single)]
    /\ pc' = [pc EXCEPT ![h] = "rec_return"]
    /\ UNCHANGED <<dedupVars, storeVars, msg, path, user, pending, outcome,
                   arrival, delivered, histVars>>
    /\ UNCHANGED <<result, cls, serviceVars>>

\* record_incoming_message returns res to its caller.
RecReturn(h) ==
    /\ pc[h] = "rec_return"
    /\ pc' = [pc EXCEPT ![h] = "idle"]
    /\ rec' = [rec EXCEPT ![h] = NoRec]
    /\ msg' = [msg EXCEPT ![h] = NoMsg]
    /\ UNCHANGED <<dedupVars, storeVars, path, user, pending, outcome,
                   arrival, delivered, faults, histVars>>
    /\ UNCHANGED <<result, cls, serviceVars>>

\* UserService.mark_incoming_processed(mid), one update statement.
MarkIncomingCall(sid) ==
    /\ \E i \in IncomingWithSid(incoming, sid) : ~incoming[i].processed
    /\ incoming' = MarkIncomingProcessed(incoming, sid)
    /\ UNCHANGED <<dedupVars, users, localVars, delivered, faults, histVars>>
    /\ UNCHANGED <<cls, serviceVars>>

\* Callers of the incoming_messages methods of UserService, interleaved at
\* every round trip to the store.
StoreNext ==
    \/ \E h \in Handlers, sid \in 1..NumConcSids, from \in Froms :
          delivered < MaxStoreCalls /\ CallRecordIncoming(h, sid, from)
    \/ \E h \in Handlers, ok \in BOOLEAN : RecInsert(h, ok)
    \/ \E h \in Handlers, single \in BOOLEAN : RecSelect(h, single)
    \/ \E h \in Handlers : RecReturn(h)
    \/ \E sid \in 1..NumConcSids : MarkIncomingCall(sid)

StoreSpec == Init /\ [][StoreNext]_vars

\* ------------------------------------------------------ IntentClassifier
\* IntentClassifier.intent_keywords, in the order of the dict: the regexes
\* compiled into _compiled_patterns.
intent_keywords ==
    <<
      <<"RECIPE_REQUEST",
        {"recipe for",
         "how to make",
         "how do i cook",
         "how to prepare",
         "cooking method",
         "cooking steps",
         "preparation steps",
         "ingredients needed for",
         "cooking time for",
         "cooking instructions for"}>>,
      <<"PANTRY_HELP",
        {"what can i make with",
         "using these ingredients",
         "i have .* what can i",
         "use up these",
         "leftover .* what to",
         "ingredients at home",
         "with what i have",
         "from my pantry",
         "available ingredients .* make"}>>,
      <<"DIETARY_QUERY",
        {"vegan option",
         "vegetarian option",
         "gluten free",
         "dairy free",
         "low carb",
         "keto friendly",
         "healthy option",
         "diet food",
         "low calorie",
         "sugar free",
         "allergy free",
         "without dairy",
         "substitute for",
         "avoid .* because"}>>,
      <<"PLANWEEK",
        {"plan my week",
         "weekly plan",
         "meal plan",
         "weekly meal plan",
         "plan meals for week",
         "7 day plan",
         "weekly menu",
         "meal planning"}>>,
      <<"UPLOAD_IMAGE",
        {"send photo",
         "upload image",
         "picture of food",
         "food photo",
         "recognize this",
         "identify this",
         "scan this",
         "check this image",
         "what('?s| is) in this (picture|photo|image)",
         "analyze photo"}>>,
      <<"MOOD",
        {"in the mood for",
         "craving",
         "fancy something",
         "feel like eating",
         "want something spicy",
         "want something sweet",
         "comfort food",
         "something filling",
         "something light",
         "dying for"}>>,
      <<"WHATSDINNER",
        {"what should i eat",
         "meal suggestion",
         "suggest (a )?meal",
         "dinner ideas",
         "food suggestions",
         "what should i cook",
         "suggest something to eat",
         "what (for )?(dinner|lunch|breakfast)",
         "cook something",
         "make something to eat",
         "cooking inspiration"}>>,
      <<"ONBOARDING",
        {"getting started",
         "how to use",
         "setup preferences",
         "configure profile",
         "reset preferences",
         "change settings",
         "update profile",
         "help me start",
         "how does this work"}>>
    >>

\* The Hinglish regexes compiled into _hinglish_patterns.
hinglish_patterns ==
    <<
      <<"WHATSDINNER",
        {"\\b(aaj|aj)\\s+(kya)\\s+(banau|banao|pakau|pakao|khana)\\b",
         "\\b(kya)\\s+(banau|banao|pakau|pakao|khana)\\b",
         "\\b(khane|khaane)\\s+(mein|me)\\s+kya\\b",
         "\\bkuch\\s+(suggest|bata|batao|karo)\\b"}>>,
      <<"PANTRY_HELP",
        {"\\bmere\\s+paas\\s+.*\\s+(hai|he)\\s+.*\\s+(kya)\\s+(bana|banau|banao)\\b",
         "\\byeh\\s+ingredients\\s+se\\s+(kya)\\s+(bana|banau|banao)\\b"}>>,
      <<"RECIPE_REQUEST",
        {"\\b(kaise|kaise)\\s+(banate|banaye|banau|banaate)\\b",
         "\\brecipe\\s+(batao|bata)\\b"}>>
    >>

\* IntentClassifier._fuzzy_patterns: substrings, in the order of the dict.
_fuzzy_patterns ==
    <<
      <<"WHATSDINNER",
        {"wat to eat",
         "wat should i eat",
         "food suggest",
         "meal suggest",
         "wat to cook",
         "wat for dinner"}>>,
      <<"MOOD",
        {"want spicy",
         "want sweet",
         "craving spic",
         "want hot food",
         "feel like eating"}>>,
      <<"PLANWEEK",
        {"plan week",
         "week plan",
         "meal plan week",
         "weekly food"}>>
    >>

\* _simple_fallback: the substrings it looks for, in the order of its tests.
fallback_words ==
    <<
      <<"RECIPE_REQUEST",
        {"recipe",
         "how to",
         "cook",
         "make"}>>,
      <<"WHATSDINNER",
        {"what's for dinner",
         "what for dinner",
         "what to eat",
         "what should i eat",
         "what should i cook"}>>,
      <<"PANTRY_HELP",
        {"i have",
         "leftover",
         "in my pantry",
         "ingredients"}>>,
      <<"PLANWEEK",
        {"weekly",
         "plan my week",
         "meal plan",
         "plan week"}>>
    >>

\* pat.search(text) with re.IGNORECASE on the texts of the model: the
\* regexes of intent_keywords and hinglish_patterns that find a match.
SearchHits(text) ==
    CASE text = "How to make dal?" ->
            {"how to make"}
      [] text = "aaj kya banau" ->
            {"\\b(aaj|aj)\\s+(kya)\\s+(banau|banao|pakau|pakao|khana)\\b", "\\b(kya)\\s+(banau|banao|pakau|pakao|khana)\\b"}
      [] text = "gluten free plan week" ->
            {"gluten free"}
      [] text = "how to make a meal plan" ->
            {"how to make", "meal plan"}
      [] text = "recipe batao plan week" ->
            {"\\brecipe\\s+(batao|bata)\\b"}
      [] text = "what can I make with eggs and rice" ->
            {"what can i make with"}
      [] OTHER -> {}

\* p in text on the lower-cased texts of the model: the substrings of
\* _fuzzy_patterns and _simple_fallback that the text contains.
SubstringHits(text) ==
    CASE text = "gluten free plan week" ->
            {"plan week"}
      [] text = "how to make a meal plan" ->
            {"how to", "make", "meal plan"}
      [] text = "how to make dal?" ->
            {"how to", "make"}
      [] text = "i have rice" ->
            {"i have"}
      [] text = "recipe batao plan week" ->
            {"plan week", "recipe"}
      [] text = "wat to eat plan week" ->
            {"wat to eat", "plan week"}
      [] text = "wat to eat tonight" ->
            {"wat to eat"}
      [] text = "what can i make with eggs and rice" ->
            {"make"}
      [] text = "what to eat" ->
            {"what to eat"}
      [] OTHER -> {}

\* Texts given to classify_intent.
Texts ==
    {"How to make dal?", "wat to eat tonight", "aaj kya banau",
     "gluten free plan week", "recipe batao plan week",
     "how to make a meal plan", "i have rice", " What to eat ", "hello", "",
     "what can I make with eggs and rice", "wat to eat plan week"}

\* The loops read from the end: the last entry with a hit.
LastIntent(lists, hits) ==
    LET found == {i \in DOMAIN lists : lists[i][2] \cap hits # {}}
    IN IF found = {} THEN NoIntent
       ELSE lists[CHOOSE i \in found : \A j \in found : i >= j][1]

\* The intent of the first entry of lists one of whose patterns is in hits
\* (the loops of the matchers return at the first hit), else None.
FirstIntent(lists, hits) ==
    LET found == {i \in DOMAIN lists : lists[i][2] \cap hits # {}}
    IN IF found = {} THEN NoIntent
       ELSE lists[CHOOSE i \in found : \A j \in found : i <= j][1]

\* IntentClassifier._pattern_match.
_pattern_match(text) == FirstIntent(intent_keywords, SearchHits(text))

\* IntentClassifier._precise_keyword_match: the same compiled patterns.
_precise_keyword_match(text) == FirstIntent(intent_keywords, SearchHits(text))

\* IntentClassifier._hinglish_pattern_match.
_hinglish_pattern_match(text) == FirstIntent(hinglish_patterns, SearchHits(text))

\* IntentClassifier._fuzzy_keyword_match.
_fuzzy_keyword_match(text_lower) == FirstIntent(_fuzzy_patterns, SubstringHits(text_lower))

\* IntentClassifier._simple_fallback.
_simple_fallback(text_lower) ==
    LET final == FirstIntent(fallback_words, SubstringHits(text_lower))
    IN IF final = NoIntent THEN "OTHER" ELSE final

\* The rule stages with the fuzzy substrings consulted first.
RuleStagesFuzzyFirst(text_str) ==
    << <<"fuzzy", _fuzzy_keyword_match(Lower(text_str))>>,
       <<"pattern", _pattern_match(text_str)>>,
       <<"keyword", _precise_keyword_match(text_str)>>,
       <<"hinglish", _hinglish_pattern_match(text_str)>> >>

\* classify_intent 250-293: the rule stages in the order it consults them,
\* each with its result for text_str.
RuleStages(text_str) ==
    << <<"pattern", _pattern_match(text_str)>>,
       <<"keyword", _precise_keyword_match(text_str)>>,
       <<"hinglish", _hinglish_pattern_match(text_str)>>,
       <<"fuzzy", _fuzzy_keyword_match(Lower(text_str))>> >>

\* The first rule stage with a result, as <<stage, intent>>; <<"none", None>>
\* when no stage has one.
FirstStage(stages) ==
    LET hit == {i \in DOMAIN stages : stages[i][2] # NoIntent}
    IN IF hit = {} THEN <<"none", NoIntent>>
       ELSE stages[CHOOSE i \in hit : \A j \in hit : i <= j]

\* A classifier that takes the client for granted.
ClientAssumed(client) == TRUE

\* classify_intent 296: if self.openai_client.
ClientConfigured(client) == client

\* _classify_with_openai 450-461: the labels it accepts.
ValidIntents ==
    {"WHATSDINNER", "PLANWEEK", "UPLOAD_IMAGE", "MOOD", "RECIPE_REQUEST",
     "PANTRY_HELP", "DIETARY_QUERY", "ONBOARDING", "OTHER"}

\* str.upper() on the replies of the model.
Upper(c) ==
    CASE c = "whatsdinner" -> "WHATSDINNER"
      [] c = "pizza" -> "PIZZA"
      [] OTHER -> c

\* A reply handed on as the model wrote it.
RawIntent(content) == content

\* _classify_with_openai 448-465: content.strip().upper(), kept when it is
\* a valid label, else OTHER.
SanitizedIntent(content) ==
    IF Upper(Strip(content)) \in ValidIntents THEN Upper(Strip(content)) ELSE "OTHER"

\* What one call of the LLM client can do: reply with a content (a label in
\* some spelling, something else, nothing), or raise RateLimitError,
\* another OpenAIError, AuthenticationError, or any other exception.
LlmOutcomes ==
    [kind : {"reply"}, content : {" whatsdinner ", "PLANWEEK", "pizza", ""}]
    \cup [kind : {"rate_limit", "openai_error", "auth_error", "exception"},
          content : {""}]

\* _classify_with_openai 386.
max_attempts == 3

\* A loop that gives up one attempt early.
MayRetryShort(attempt) == attempt < max_attempts - 1

\* _classify_with_openai 476, 483, 494: if attempt < max_attempts.
MayRetry(attempt) == attempt < max_attempts

\* Every failure of the client call treated as worth another attempt.
RetryableAny(o) == TRUE

\* _classify_with_openai 467-500: the except clause of AuthenticationError
\* returns None at once; the clauses of RateLimitError, OpenAIError (an
\* empty content is raised as one) and Exception retry.
Retryable(o) == o.kind # "auth_error"

\* classify_intent up to its first await: the rule stages, then the LLM when
\* no stage matched and a client is configured, else _simple_fallback.
ClassifyIntent(text, client) ==
    /\ cls.pc = "idle"
    /\ LET text_str == Strip(text)
           rule == FirstStage(RuleStages(text_str))
           base == [ClsIdle EXCEPT !.text = text, !.client = client]
       IN cls' = IF rule[2] # NoIntent
                 THEN [base EXCEPT !.pc = "done", !.stage = rule[1],
                                   !.result = rule[2]]
                 ELSE IF ClientConfigured(client)
                 THEN [base EXCEPT !.pc = "llm", !.attempt = 1]
                 ELSE [base EXCEPT !.pc = "done", !.stage = "heuristic_fallback",
                                   !.result = _simple_fallback(Lower(text_str))]
    /\ UNCHANGED <<dedupVars, storeVars, localVars, delivered, faults, histVars,
                   serviceVars>>

\* One attempt of _classify_with_openai: the call in the executor returns
\* or raises.  A reply with content ends the classification; an
\* authentication error, or a failure on the last attempt, makes
\* _classify_with_openai return None and classify_intent go on to
\* _simple_fallback; any other failure sleeps (asyncio.sleep(backoff *
\* attempt)) and tries again.
LlmAttempt(o) ==
    /\ cls.pc = "llm"
    /\ LET called == [cls EXCEPT !.calls = @ + 1, !.outcomes = Append(@, o)]
           text_lower == Lower(Strip(cls.text))
       IN cls' = IF o.kind = "reply" /\ o.content # ""
                 THEN [called EXCEPT !.pc = "done", !.stage = "openai",
                                     !.result = SanitizedIntent(o.content)]
                 ELSE IF Retryable(o) /\ MayRetry(cls.attempt)
                 THEN [called EXCEPT !.attempt = @ + 1, !.sleeps = @ + 1]
                 ELSE [called EXCEPT !.pc = "done", !.stage = "heuristic_fallback",
                                     !.result = _simple_fallback(text_lower)]
    /\ UNCHANGED <<dedupVars, storeVars, localVars, delivered, faults, histVars,
                   serviceVars>>

\* classify_intent returns its label.
ClassifyReturn ==
    /\ cls.pc = "done"
    /\ cls' = ClsIdle
    /\ UNCHANGED <<dedupVars, storeVars, localVars, delivered, faults, histVars,
                   serviceVars>>

\* Calls of classify_intent, one after the other, with and without a
\* client, the LLM behaving in any way at each attempt.
ClsNext ==
    \/ \E text \in Texts, client \in BOOLEAN : ClassifyIntent(text, client)
    \/ \E o \in LlmOutcomes : LlmAttempt(o)
    \/ ClassifyReturn

ClsSpec == Init /\ [][ClsNext]_vars

\* The event loop resumes classify_intent after every await: the executor
\* call of an attempt returns or raises, and a backoff sleep ends.
ClsLiveSpec == ClsSpec /\ WF_vars(\E o \in LlmOutcomes : LlmAttempt(o))

\* ------------------------------------------- TwilioClient, the outbound sender
\* TwilioClient.__init__: max_retries.
max_retries == 2

\* send_whatsapp_message 249.
non_transient_codes == {21614, 63007}

\* Only the invalid-number code treated as final.
NonTransientOne(code) == code = 21614

\* send_whatsapp_message 250: if code in non_transient_codes.
NonTransient(code) == code \in non_transient_codes

\* A loop that stops one attempt early.
LastAttemptEarly(attempt) == attempt = max_retries

\* send_whatsapp_message 196-198: range(1, max_retries + 2) ends after the
\* attempt numbered max_retries + 1.
LastAttempt(attempt) == attempt = max_retries + 1

\* What one call of client.messages.create can do: return a message, or
\* raise TwilioRestException with a code (20429: too many requests),
\* another TwilioException, or any other exception.
ProviderOutcomes ==
    [kind : {"sent"}, code : {0}]
    \cup [kind : {"rest_error"}, code : {21614, 63007, 20429}]
    \cup [kind : {"twilio_exception", "exception"}, code : {0}]

\* The public methods of UserService, the repo MessageHandler gives to the
\* sender.
RepoMethods ==
    {"record_incoming_message", "mark_incoming_processed",
     "get_user_by_whatsapp_id", "create_user", "upsert_user",
     "update_user_fields", "create_session", "create_session_sync",
     "upsert_user_pantry_items", "create_meal_plan",
     "update_user_onboarding_step", "update_user_name_and_onboarding_step",
     "update_user_diet_and_onboarding_step",
     "update_user_cuisine_and_onboarding_step",
     "update_user_allergies_and_onboarding_step",
     "update_user_household_and_complete_onboarding",
     "process_onboarding_step"}

\* _persist_outgoing 104-127: the repo method it finds with hasattr.
PersistMethod ==
    IF "record_outgoing_message" \in RepoMethods THEN "record_outgoing_message"
    ELSE IF "create_session_sync" \in RepoMethods THEN "create_session_sync"
    ELSE "none"

\* _update_user_last_active 135-152: it writes only with a user_id and a
\* repo that has update_user_last_active or upsert_user_onboarding.
LastActiveWritten(user_id) ==
    /\ user_id # None
    /\ \/ "update_user_last_active" \in RepoMethods
       \/ "upsert_user_onboarding" \in RepoMethods

\* create_session_sync -> create_session: the insert into sessions, whose
\* user_id column is not nullable (models/session.py); a failed insert
\* comes back as a not-ok result.
SessionInsertOk(user_id, dbok) == dbok /\ user_id # None

\* A send that counts as sent only when its audit row was stored.
OutcomeNeedsAudit(ok, stored) == ok /\ stored

\* send_whatsapp_message 218-233, 252-266, 303-317: what _persist_outgoing
\* returns or raises is dropped; meta goes back as it was.
OutcomeAfterAudit(ok, stored) == ok

\* TwilioMessageHandler.send_text(to_phone, body, user_id) with a configured
\* sender: send_whatsapp_message starts in a worker thread.
SendText(user_id) ==
    /\ snd.pc = "idle"
    /\ snd' = [SndIdle EXCEPT !.pc = "attempt", !.user_id = user_id, !.attempts = 1]
    /\ delivered' = delivered + 1
    /\ UNCHANGED <<dedupVars, storeVars, localVars, faults, histVars, cls, sessions, rcm, dcall, eqv>>

\* One attempt, 199-282: client.messages.create returns or raises.
ProviderCall(o) ==
    /\ snd.pc = "attempt"
    /\ LET called == [snd EXCEPT !.outcomes = Append(@, o)]
       IN snd' =
            CASE o.kind = "sent" ->
                    [called EXCEPT !.ok = TRUE, !.twilio_sid = "SMout",
                                   !.status = "queued", !.pc = "persist"]
              [] o.kind = "rest_error" /\ NonTransient(o.code) ->
                    [called EXCEPT !.ok = FALSE, !.error = "rest_error",
                                   !.status = "error", !.pc = "persist"]
              [] o.kind = "rest_error" /\ ~NonTransient(o.code) ->
                    [called EXCEPT !.ok = FALSE, !.error = "rest_error",
                                   !.pc = "sleep"]
              [] OTHER -> [called EXCEPT !.pc = "sleep"]
    /\ UNCHANGED <<dedupVars, storeVars, localVars, delivered, faults, histVars,
                   cls, sessions, rcm, dcall, eqv>>

\* 284-301: the backoff sleep after a failed attempt, then the next attempt
\* or, after the last one, the exhausted_retries outcome.
Backoff ==
    /\ snd.pc = "sleep"
    /\ snd' = IF LastAttempt(snd.attempts)
              THEN [snd EXCEPT !.sleeps = @ + 1, !.ok = FALSE,
                               !.error = "exhausted_retries",
                               !.status = "exhausted_retries", !.pc = "persist"]
              ELSE [snd EXCEPT !.sleeps = @ + 1, !.attempts = @ + 1,
                               !.pc = "attempt"]
    /\ UNCHANGED <<dedupVars, storeVars, localVars, delivered, faults, histVars,
                   cls, sessions, rcm, dcall, eqv>>

\* _persist_outgoing with UserService as repo: create_session_sync(user_id,
\* "outgoing_message", body), the store up (dbok) or down.
PersistOutgoing(dbok) ==
    /\ snd.pc = "persist"
    /\ LET stored == /\ PersistMethod = "create_session_sync"
                     /\ SessionInsertOk(snd.user_id, dbok)
       IN /\ sessions' = IF stored
                         THEN Append(sessions, [user_id |-> snd.user_id,
                                                prompt |-> "outgoing_message"])
                         ELSE sessions
          /\ snd' = [snd EXCEPT
                        !.audit = IF stored THEN "stored"
                                  ELSE IF dbok THEN "rejected" ELSE "store_down",
                        !.rows = IF stored THEN @ + 1 ELSE @,
                        !.ok = OutcomeAfterAudit(snd.ok, stored),
                        !.pc = IF snd.ok THEN "touch" ELSE "done"]
    /\ UNCHANGED <<dedupVars, storeVars, localVars, delivered, faults, histVars, cls,
                   rcm, dcall, eqv>>

\* 232: _update_user_last_active(user_id) after a successful send.
UpdateLastActive ==
    /\ snd.pc = "touch"
    /\ snd' = [snd EXCEPT !.touched = LastActiveWritten(snd.user_id), !.pc = "done"]
    /\ UNCHANGED <<dedupVars, storeVars, localVars, delivered, faults, histVars,
                   cls, sessions, rcm, dcall, eqv>>

\* send_text returns the outcome to its caller.
SendReturn ==
    /\ snd.pc = "done"
    /\ snd' = SndIdle
    /\ UNCHANGED <<dedupVars, storeVars, localVars, delivered, faults, histVars,
                   cls, sessions, rcm, dcall, eqv>>

\* Calls of send_text, as the pipeline makes them (no user_id) and with the
\* id of a user, the provider and the store behaving in any way.
SenderNext ==
    \/ \E user_id \in {None, 1} : delivered < MaxSends /\ SendText(user_id)
    \/ \E o \in ProviderOutcomes : ProviderCall(o)
    \/ Backoff
    \/ \E dbok \in BOOLEAN : PersistOutgoing(dbok)
    \/ UpdateLastActive
    \/ SendReturn

SenderSpec == Init /\ [][SenderNext]_vars

\* ------------------------------------------- RecommendationService
\* Rows of the meals table as the catalog search returns them.
PaneerTikka ==
    [name |-> "Paneer Tikka", diet_type |-> "veg",
     ingredients |-> <<"paneer", "chili">>, tags |-> <<"spicy">>]
EggFriedRice ==
    [name |-> "Egg Fried Rice", diet_type |-> "Non-Veg",
     ingredients |-> <<"Eggs", "rice">>, tags |-> <<"quick">>]
PeanutChaat ==
    [name |-> "Peanut Chaat", diet_type |-> "veg",
     ingredients |-> <<"potato">>, tags |-> <<"peanuts">>]
Meals == {PaneerTikka, EggFriedRice, PeanutChaat}

\* What a search can return: up to two rows.
MealLists == {<<>>} \cup {<<m>> : m \in Meals} \cup {<<m, n>> : m, n \in Meals}

\* users.diet as _handle_diet stores it, "" for no user or no diet.
Diets == {"", "veg", "non-veg", "both"}

\* users.allergies as _handle_allergies stores it.
AllergySets == {{}, {"eggs"}, {"peanut"}, {"eggs", "peanut"}}

\* max_results of a call; 3 is DEFAULT_MAX.
MaxResults == {0 - 1, 0, 1, 3}

\* `a in w` for an allergen and a lower-case word of the model.
Contains(a, w) == a = w \/ (a = "peanut" /\ w = "peanuts")

\* `a in " ".join(str(x).lower() for x in words)`: an allergen holds no
\* space, so it is found in the joined text when it is found in a word.
InJoined(a, words) == \E k \in DOMAIN words : Contains(a, Lower(words[k]))

\* _apply_preferences_filter, meal_allowed 65-81.
meal_allowed(meal, diet, allergies) ==
    LET meal_diet == Lower(meal.diet_type)
    IN /\ ~(/\ diet \in {"veg", "vegetarian"}
            /\ meal_diet # ""
            /\ meal_diet \notin {"veg", "vegetarian", "plant-based"})
       /\ \A a \in allergies :
            ~(a # "" /\ (InJoined(a, meal.ingredients) \/ InJoined(a, meal.tags)))

RECURSIVE Filter(_, _, _)
Filter(meals, diet, allergies) ==
    IF meals = <<>> THEN <<>>
    ELSE LET rest == Filter(Tail(meals), diet, allergies)
         IN IF meal_allowed(Head(meals), diet, allergies)
            THEN <<Head(meals)>> \o rest
            ELSE rest

\* _apply_preferences_filter 58-84.
_apply_preferences_filter(meals, diet, allergies) == Filter(meals, Lower(diet), allergies)

\* recs_filtered[:max_results].
Take(s, n) ==
    IF n >= 0
    THEN SubSeq(s, 1, IF n < Len(s) THEN n ELSE Len(s))
    ELSE SubSeq(s, 1, IF Len(s) + n > 0 THEN Len(s) + n ELSE 0)

\* _format_single_meal 596-614: the recommendation made of a meal.
_format_single_meal(meal) ==
    [name |-> meal.name, diet_type |-> meal.diet_type,
     ingredients |-> meal.ingredients, tags |-> meal.tags,
     ingredient_count |-> Len(meal.ingredients)]

\* _get_default_recommendations 667-700.
_get_default_recommendations ==
    << _format_single_meal([name |-> "Dal Rice", diet_type |-> "veg",
                            ingredients |-> <<"dal", "rice", "turmeric", "cumin">>,
                            tags |-> <<"comfort", "healthy", "simple">>]),
       _format_single_meal([name |-> "Vegetable Stir Fry", diet_type |-> "veg",
                            ingredients |-> <<"mixed vegetables", "soy sauce", "garlic">>,
                            tags |-> <<"quick", "healthy", "colorful">>]),
       _format_single_meal([name |-> "Egg Curry", diet_type |-> "non-veg",
                            ingredients |-> <<"eggs", "onion", "tomato", "spices">>,
                            tags |-> <<"protein-rich", "comforting">>]) >>

\* An empty list handed back as it is.
FormattedAsIs(formatted) == formatted

\* _generate_recommendations_with_diag 372-376: the default suggestions
\* when the formatted list is empty.
OrDefaults(formatted) ==
    IF formatted = <<>> THEN _get_default_recommendations ELSE formatted

\* get_meal_recommendations 197-292: the user's criteria are read, the
\* intent is classified and its handler returns the candidates recs (the
\* search result, [] when the search fails); the DIETARY_QUERY handler sets
\* criteria["diet"] = "veg" for a message asking for vegan or vegetarian.
GetMealRecommendations(diet, allergies, asks_veg, recs, max_results) ==
    /\ rcm.pc = "idle"
    /\ rcm' = [RcmIdle EXCEPT !.pc = "filter", !.user_diet = diet,
                              !.diet = IF asks_veg THEN "veg" ELSE diet,
                              !.allergies = allergies, !.recs = recs,
                              !.max_results = max_results]
    /\ UNCHANGED <<dedupVars, storeVars, localVars, delivered, faults, histVars,
                   cls, snd, sessions, dcall, eqv>>

\* _generate_recommendations_with_diag 341-353: the strict filter, then the
\* relaxed pass without the allergies; raises: an exception in the filter
\* (a row with ingredients null), caught at 381-383.
ApplyFilters(raises) ==
    /\ rcm.pc = "filter"
    /\ LET strict == _apply_preferences_filter(rcm.recs, rcm.diet, rcm.allergies)
           relaxed == _apply_preferences_filter(rcm.recs, rcm.diet, {})
       IN rcm' =
            IF raises
            THEN [rcm EXCEPT !.out = _get_default_recommendations,
                             !.stage = "error", !.pc = "done"]
            ELSE IF strict # <<>>
            THEN [rcm EXCEPT !.filtered = strict, !.stage = "strict", !.pc = "limit"]
            ELSE IF relaxed # <<>>
            THEN [rcm EXCEPT !.filtered = relaxed, !.stage = "relaxed", !.pc = "limit"]
            ELSE [rcm EXCEPT !.pc = "db_wide"]
    /\ UNCHANGED <<dedupVars, storeVars, localVars, delivered, faults, histVars,
                   cls, snd, sessions, dcall, eqv>>

\* 354-366: the search of the whole catalog, filtered by diet only, [] when
\* the search raises.
DbWideSearch(db_all, ok) ==
    /\ rcm.pc = "db_wide"
    /\ rcm' = [rcm EXCEPT
                  !.filtered = IF ok THEN _apply_preferences_filter(db_all, rcm.diet, {})
                               ELSE <<>>,
                  !.db = IF ok THEN "ok" ELSE "failed",
                  !.stage = "db_wide", !.pc = "limit"]
    /\ UNCHANGED <<dedupVars, storeVars, localVars, delivered, faults, histVars,
                   cls, snd, sessions, dcall, eqv>>

\* 368-378: limit, format, and the defaults for an empty list.
LimitAndFormat ==
    /\ rcm.pc = "limit"
    /\ LET final == Take(rcm.filtered, rcm.max_results)
           formatted == [k \in DOMAIN final |-> _format_single_meal(final[k])]
       IN rcm' = [rcm EXCEPT !.out = OrDefaults(formatted),
                             !.stage = IF formatted = <<>> THEN "default" ELSE @,
                             !.pc = "done"]
    /\ UNCHANGED <<dedupVars, storeVars, localVars, delivered, faults, histVars,
                   cls, snd, sessions, dcall, eqv>>

\* get_meal_recommendations returns recs.
RecommendationsReturn ==
    /\ rcm.pc = "done"
    /\ rcm' = RcmIdle
    /\ UNCHANGED <<dedupVars, storeVars, localVars, delivered, faults, histVars,
                   cls, snd, sessions, dcall, eqv>>

\* Calls of get_meal_recommendations for every user, candidate list and
\* max_results of the model.
RecNext ==
    \/ \E diet \in Diets, allergies \in AllergySets, asks_veg \in BOOLEAN,
          recs \in MealLists, max_results \in MaxResults :
            GetMealRecommendations(diet, allergies, asks_veg, recs, max_results)
    \/ \E raises \in BOOLEAN : ApplyFilters(raises)
    \/ \E db_all \in MealLists, ok \in BOOLEAN : DbWideSearch(db_all, ok)
    \/ LimitAndFormat
    \/ RecommendationsReturn

RecSpec == Init /\ [][RecNext]_vars

\* ------------------------------------------- InMemoryDeduper, called directly
DedupKeys == 1..NumKeys

\* InMemoryDeduper(max_entries): an empty deduper of that capacity.
NewDeduper(max_entries) ==
    /\ dcall.op = "none"
    /\ dq' = <<>>
    /\ dset' = {}
    /\ dcall' = [NoCall EXCEPT !.op = "new", !.max_entries = max_entries]
    /\ UNCHANGED <<storeVars, localVars, delivered, faults, histVars, cls, snd,
                   sessions, rcm, eqv>>

\* deduper.add(key).
AddCall(key) ==
    /\ dcall.op # "none"
    /\ LET after == DeduperAddCap(dq, dset, key, dcall.max_entries)
       IN /\ dq' = after[1]
          /\ dset' = after[2]
          /\ dcall' = [dcall EXCEPT !.op = "add", !.key = key,
                                    !.ret = AddReturns(dset, key),
                                    !.before_queue = dq, !.before_set = dset,
                                    !.evicted = IF key \in dset THEN {} ELSE after[3]]
    /\ UNCHANGED <<storeVars, localVars, delivered, faults, histVars, cls, snd,
                   sessions, rcm, eqv>>

\* deduper.contains(key).
ContainsCall(key) ==
    /\ dcall.op # "none"
    /\ dcall' = [dcall EXCEPT !.op = "contains", !.key = key,
                              !.ret = DeduperContains(dset, key),
                              !.before_queue = dq, !.before_set = dset,
                              !.evicted = {}]
    /\ UNCHANGED <<dedupVars, storeVars, localVars, delivered, faults, histVars,
                   cls, snd, sessions, rcm, eqv>>

\* A deduper of a small capacity and any sequence of calls on it.
DedupNext ==
    \/ \E max_entries \in 1..MaxCapacity : NewDeduper(max_entries)
    \/ \E key \in DedupKeys : AddCall(key)
    \/ \E key \in DedupKeys : ContainsCall(key)

DedupSpec == Init /\ [][DedupNext]_vars

\* ------------------------------------------- the two onboarding transitions
\* Reply bodies: blank, names, "skip", menu numbers, option words.
ReplyBodies ==
    {"", " ", "skip", "SKIP", "Bob", " Bob ", LongBody, "1", "2", "3", "4",
     "5", "6", "9", "veg", "non-veg", "both", "none", "dairy", "chinese",
     "couple", "shared"}

\* OnboardingService.handle_onboarding_message for a user at step: the
\* update of the step's handler for the trimmed body; _handle_name asks
\* again for an empty body and writes nothing.
HandlerTransition(step, body) ==
    IF step = STEP_NAME /\ Strip(body) = ""
    THEN NoPatch
    ELSE StepPatch(step, Strip(body))

\* UserService.process_onboarding_step for a user at step: the update it
\* makes for the trimmed body.
ServiceTransition(step, body) == ServiceStepPatch(step, Strip(body))

\* One stored step and one reply body are given to both services.
CompareStep(step, body) ==
    /\ eqv' = [compared |-> TRUE, step |-> step, body |-> body,
               handler |-> HandlerTransition(step, body),
               service |-> ServiceTransition(step, body)]
    /\ UNCHANGED <<dedupVars, storeVars, localVars, delivered, faults, histVars,
                   cls, snd, sessions, rcm, dcall>>

EquivNext ==
    \E step \in STEP_NAME..STEP_HOUSEHOLD, body \in ReplyBodies : CompareStep(step, body)

EquivSpec == Init /\ [][EquivNext]_vars

\* ------------------------------------------- the step handlers, called directly
\* Bodies for the step handlers: blank, "skip" in two cases, a name, and a
\* body longer than 64 characters.
HandlerBodies == {" ", "skip", "SKIP", "Bob", LongBody}

\* UserService.create_user for a sender without a row.
CreateUserCall(from) ==
    /\ UsersWithWid(users, _clean_phone(from)) = {}
    /\ users' = UpsertUser(users, _clean_phone(from))
    /\ UNCHANGED <<dedupVars, incoming, localVars, delivered, faults, histVars>>
    /\ UNCHANGED <<cls, serviceVars>>

\* handle_onboarding_message 316-326 with the stored row of the sender in
\* hand: it dispatches on the row's step to _handle_name, _handle_diet,
\* _handle_cuisine, _handle_allergies or _handle_household.
CallStepHandler(h, i, from, body) ==
    /\ pc[h] = "idle"
    /\ \A g \in Handlers : g < h => pc[g] # "idle"
    /\ i \in DOMAIN users
    /\ users[i].whatsapp_id = _clean_phone(from)
    /\ DispatchStep(users[i]) # STEP_COMPLETE
    /\ pc' = [pc EXCEPT ![h] = "step_handler"]
    /\ user' = [user EXCEPT ![h] = users[i]]
    /\ msg' = [msg EXCEPT ![h] =
                  [sid |-> h, from |-> from, body |-> body, num_media |-> "0"]]
    /\ arrival' = [arrival EXCEPT ![h] = users[i].onboarding_step]
    /\ delivered' = delivered + 1
    /\ UNCHANGED <<dedupVars, storeVars, rec, path, pending, outcome, faults,
                   histVars, result, cls, serviceVars>>

\* The step handler returns its status to handle_onboarding_message.
StepHandlerReturn(h) ==
    /\ pc[h] = "mark"
    /\ pc' = [pc EXCEPT ![h] = "idle"]
    /\ msg' = [msg EXCEPT ![h] = NoMsg]
    /\ arrival' = [arrival EXCEPT ![h] = NoUser]
    /\ result' = [result EXCEPT ![h] = "none"]
    /\ UNCHANGED <<dedupVars, storeVars, rec, path, user, pending, outcome,
                   delivered, faults, histVars, cls,
                   serviceVars>>

\* The step handlers of OnboardingService, run concurrently for the rows of
\* the store, with failing store and provider calls.
HandlerNext ==
    \/ \E from \in Froms : CreateUserCall(from)
    \/ \E h \in Handlers, i \in 1..NumSids, from \in Froms, body \in HandlerBodies :
          delivered < MaxHandlerCalls /\ CallStepHandler(h, i, from, body)
    \/ \E h \in Handlers, ok \in BOOLEAN : OnboardingWrite(h, ok)
    \/ \E h \in Handlers, ok \in BOOLEAN : SendReply(h, ok)
    \/ \E h \in Handlers : StepHandlerReturn(h)

HandlerSpec == Init /\ [][HandlerNext]_vars

\* ------------------------------------------------------------ the claims
InFlight(h) == pc[h] # "idle"

\* Position of a stored step along NAME(0) .. HOUSEHOLD(4), COMPLETE(null).
Pos(step) == IF step = None THEN STEP_COMPLETE ELSE step

\* A handler of the pipeline took a step (process_onboarding_step leaves
\* every handler where it is).
PipelineStep == pc' # pc

\* C1: for every MessageSid, over all deliveries and interleavings of their
\* handlers, at most one handler performs a processing pass (process_webhook
\* followed by mark_incoming_processed).
C1_AtMostOnePass == \A s \in Sids : passes[s] <= 1

\* C2: an incoming_messages row has processed = true only if a processing
\* pass for its message_sid ended with a successfully sent reply.
C2_ProcessedOnlyAfterReply ==
    \A i \in DOMAIN incoming :
        incoming[i].processed => replied[incoming[i].message_sid]

\* A pass for the sid of h has ended, its row is still unprocessed and no
\* other handler is working on that sid.
LeftUnprocessed(h) ==
    /\ passes[msg[h].sid] >= 1
    /\ \E i \in DOMAIN incoming :
          incoming[i].message_sid = msg[h].sid /\ ~incoming[i].processed
    /\ \A g \in Handlers \ {h} : ~(InFlight(g) /\ msg[g].sid = msg[h].sid)

\* C3: a redelivery of a message whose record was left processed = false is
\* processed again: the in-memory duplicate check does not acknowledge it.
C3_UnprocessedIsRetried ==
    [][\A h \in Handlers :
          (pc[h] = "dedup_check" /\ pc'[h] = "idle") => ~LeftUnprocessed(h)]_vars

C5_StepMonotone ==
    [][PipelineStep =>
          \A i \in DOMAIN users :
              /\ Pos(users'[i].onboarding_step) >= Pos(users[i].onboarding_step)
              /\ Pos(users'[i].onboarding_step) <= Pos(users[i].onboarding_step) + 1]_vars

\* C6: once the pipeline has handled the first message of a new user and
\* five more messages with non-empty bodies, each with its own MessageSid,
\* the user's onboarding_step is null and a profile summary has been sent.
C6_FiveAnswersComplete ==
    (AllIdle /\ Cardinality({s \in Sids : passes[s] >= 1}) >= 6) =>
        /\ \A i \in DOMAIN users : users[i].onboarding_step = None
        /\ summaries >= 1

\* C7: when the handling of a message with body "2" ends, and the sender
\* was stored at step DIET when it came, the sender has diet "non-veg" and
\* onboarding_step CUISINE.
C7_DietTwoIsNonVeg ==
    [][\A h \in Handlers :
          (/\ pc[h] = "mark"
           /\ pc'[h] = "idle"
           /\ arrival[h] = STEP_DIET
           /\ msg[h].body = "2")
          => \A i \in UsersWithWid(users', _clean_phone(msg[h].from)) :
                /\ users'[i].diet = "non-veg"
                /\ users'[i].onboarding_step = STEP_CUISINE]_vars

\* C8: a user whose onboarding_step is null is left as it is by every step
\* of the pipeline: step and profile fields stay what they were.
C8_CompleteIsFinal ==
    [][PipelineStep =>
          \A i \in DOMAIN users :
              users[i].onboarding_step = None => users'[i] = users[i]]_vars

\* C9: with messages of one user handled concurrently, the stored
\* onboarding_step of the user never goes down and never moves by more than
\* one position in one write.
C9_ConcurrentStepMonotone ==
    [][PipelineStep =>
          \A wid \in {_clean_phone(f) : f \in Froms} :
              LET before == StoredStep(users, wid)
                  after == StoredStep(users', wid)
              IN before # NoUser =>
                    /\ after # NoUser
                    /\ Pos(after) - Pos(before) \in {0, 1}]_vars

\* C10: over all deliveries of one MessageSid at most one name prompt is
\* sent for it, and the sender has at most one user row.
C10_OnePromptOneUser ==
    /\ \A s \in Sids : prompts[s] <= 1
    /\ \A f \in Froms : Cardinality(UsersWithWid(users, _clean_phone(f))) <= 1

\* C11: when the handling of a message ends whose sender had no user row
\* when it came, the sender has one row, exactly as create_user writes it
\* (step NAME, name "Guest", no answer taken from the body), the name prompt
\* was sent for the message, and no intent classification ran for it.
C11_UnknownSenderStarted ==
    [][\A h \in Handlers :
          (pc[h] = "mark" /\ pc'[h] = "idle" /\ arrival[h] = NoUser)
          => LET wid == _clean_phone(msg[h].from)
             IN /\ Cardinality(UsersWithWid(users', wid)) = 1
                /\ \A i \in UsersWithWid(users', wid) :
                       users'[i] = NewUserRow(i, wid)
                /\ prompts'[msg[h].sid] = 1
                /\ ~classified'[msg[h].sid]]_vars

\* The first message of an unknown sender, body "Bob", has been answered
\* with the name prompt and its handler is about to finish.
C11_Witness ==
    \E h \in Handlers :
        /\ pc[h] = "mark"
        /\ arrival[h] = NoUser
        /\ msg[h].body = "Bob"
        /\ prompts[msg[h].sid] = 1
        /\ \E i \in DOMAIN users : users[i].name = "Guest"

\* The store update of the step handler h runs in this step and fails.
UpdateFails(h) ==
    /\ pc[h] = "step_handler"
    /\ pc'[h] # "step_handler"
    /\ faults' = faults + 1

\* C12: when the store update inside a step handler fails, the users table
\* (onboarding_step and profile fields of every row) is what it was and the
\* handler reports status error, so the stored step is still the step the
\* handler was dispatched on.
C12_FailedUpdateKeepsStep ==
    [][\A h \in Handlers :
          UpdateFails(h) =>
              /\ users' = users
              /\ result'[h] = "error"]_vars

\* The update of _handle_diet failed: status error, and the user is still
\* stored at step DIET with no diet.
C12_Witness ==
    \E h \in Handlers :
        /\ result[h] = "error"
        /\ arrival[h] = STEP_DIET
        /\ faults = 1
        /\ \A i \in UsersWithWid(users, _clean_phone(msg[h].from)) :
               users[i].onboarding_step = STEP_DIET /\ users[i].diet = ""

\* The row a step handler leaves for an answer: the field of its question
\* and the next onboarding_step, every other column as it was.
RowAfter(row, step, body) ==
    CASE step = STEP_NAME ->
            [row EXCEPT !.name = NameOf(body), !.onboarding_step = STEP_DIET]
      [] step = STEP_DIET ->
            [row EXCEPT !.diet = DietOf(body), !.onboarding_step = STEP_CUISINE]
      [] step = STEP_CUISINE ->
            [row EXCEPT !.cuisine_pref = CuisineOf(body),
                        !.onboarding_step = STEP_ALLERGIES]
      [] step = STEP_ALLERGIES ->
            [row EXCEPT !.allergies = AllergiesOf(body),
                        !.onboarding_step = STEP_HOUSEHOLD]
      [] OTHER ->
            [row EXCEPT !.household_size = HouseholdOf(body),
                        !.onboarding_step = None]

\* C13: every change a step handler makes to a user row is one write that
\* sets the answered field and the next onboarding_step together: no step
\* of the store moves a row's step without the field of that question, or
\* the field without the step.
C13_FieldAndStepTogether ==
    [][\A i \in DOMAIN users :
          users'[i] # users[i] =>
              \E h \in Handlers :
                  /\ pc[h] = "step_handler"
                  /\ pc'[h] # "step_handler"
                  /\ user[h].id = i
                  /\ users'[i] = RowAfter(users[i], DispatchStep(user[h]),
                                          BodyText(msg[h].body))]_vars

\* _handle_diet has written diet and step CUISINE for the body "Bob" and is
\* about to send the cuisine question.
C13_Witness ==
    \E h \in Handlers :
        /\ pc[h] = "send"
        /\ pending[h] = "ask_cuisine"
        /\ msg[h].body = "Bob"
        /\ \E i \in UsersWithWid(users, _clean_phone(msg[h].from)) :
               /\ users[i].diet = "both"
               /\ users[i].onboarding_step = STEP_CUISINE

\* _handle_name runs for h in this step and its store call, if it makes
\* one, succeeds.
NameHandlerRuns(h) ==
    /\ pc[h] = "step_handler"
    /\ pc'[h] # "step_handler"
    /\ DispatchStep(user[h]) = STEP_NAME
    /\ faults' = faults

C15_EveryPassAttemptsReply ==
    \A s \in Sids : passes[s] >= 1 => attempted[s]

\* C16: a request that is not an in-memory duplicate is always normalized
\* to a message and goes on to be recorded and routed, whatever its
\* MessageSid, Body and NumMedia fields hold: building the internal message
\* never ends the request.
C16_NeverAborts ==
    [][\A h \in Handlers :
          (pc[h] = "dedup_check" /\ ~DeduperContains(dset, msg[h].sid))
          => pc'[h] \in {"dedup_check", "record"}]_vars

\* No rule stage has a result for the text of the running classification.
NoRuleMatch == FirstStage(RuleStages(Strip(cls.text)))[2] = NoIntent

\* C17: the label of a finished classification is that of the first stage,
\* in the order pattern, keyword, Hinglish, fuzzy, that has a result: "How
\* to make dal?" and "how to make a meal plan" get the pattern stage's
\* RECIPE_REQUEST, "gluten free plan week" the pattern stage's DIETARY_QUERY
\* (not the fuzzy PLANWEEK), "recipe batao plan week" the Hinglish stage's
\* RECIPE_REQUEST (not the fuzzy PLANWEEK), "aaj kya banau" the Hinglish
\* WHATSDINNER and "wat to eat tonight" the fuzzy stage's WHATSDINNER.
C17_FirstStageWins ==
    cls.pc = "done" =>
        LET t == Strip(cls.text)
            got == <<cls.stage, cls.result>>
        IN /\ _pattern_match(t) # NoIntent => got = <<"pattern", _pattern_match(t)>>
           /\ (_pattern_match(t) = NoIntent /\ _hinglish_pattern_match(t) # NoIntent)
                 => got = <<"hinglish", _hinglish_pattern_match(t)>>
           /\ cls.text \in {"How to make dal?", "how to make a meal plan"}
                 => got = <<"pattern", "RECIPE_REQUEST">>
           /\ cls.text = "gluten free plan week" => got = <<"pattern", "DIETARY_QUERY">>
           /\ cls.text = "recipe batao plan week" => got = <<"hinglish", "RECIPE_REQUEST">>
           /\ cls.text = "aaj kya banau" => got = <<"hinglish", "WHATSDINNER">>
           /\ cls.text = "wat to eat tonight" => got = <<"fuzzy", "WHATSDINNER">>

\* A text that the pattern stage and the fuzzy stage label differently has
\* been classified by the pattern stage.
C17_Witness ==
    /\ cls.pc = "done"
    /\ cls.text = "gluten free plan week"
    /\ _fuzzy_keyword_match(Lower(Strip(cls.text))) = "PLANWEEK"
    /\ cls.result = "DIETARY_QUERY"

\* C18: the LLM client is called only for a text that no rule stage matched
\* and only by a classifier with a client configured, and a reply that is a
\* valid label for such a text is the result (" whatsdinner " gives
\* WHATSDINNER, "PLANWEEK" gives PLANWEEK).
C18_LlmOnlyAsFallback ==
    /\ cls.calls > 0 => (NoRuleMatch /\ cls.client)
    /\ (cls.pc # "idle" /\ (~NoRuleMatch \/ ~cls.client)) =>
          (cls.calls = 0 /\ cls.pc = "done" /\ cls.stage # "openai")
    /\ (cls.pc = "done" /\ cls.calls > 0) =>
          LET last == cls.outcomes[Len(cls.outcomes)]
          IN /\ (last.kind = "reply" /\ last.content = " whatsdinner ")
                   => cls.result = "WHATSDINNER"
             /\ (last.kind = "reply" /\ last.content = "PLANWEEK")
                   => cls.result = "PLANWEEK"

\* The LLM was asked once about a text no rule matches, with a client, and
\* its valid label is the result.
C18_Witness ==
    /\ cls.pc = "done"
    /\ cls.text = "hello"
    /\ cls.client
    /\ cls.calls = 1
    /\ cls.stage = "openai"
    /\ cls.result = "WHATSDINNER"

\* C19: every classification that has started ends, and it ends with a
\* label of the closed set, whatever the text is and whatever the LLM does
\* at each attempt; a reply that is no valid label after strip and upper
\* ("pizza") ends it with OTHER.
C19_AlwaysAValidLabel ==
    /\ [](cls.pc = "done" =>
            /\ cls.result \in ValidIntents
            /\ (/\ cls.stage = "openai"
                /\ cls.outcomes[Len(cls.outcomes)].content = "pizza")
                  => cls.result = "OTHER")
    /\ (cls.pc = "llm" ~> cls.pc = "done")

\* The LLM answered "pizza" after a failed attempt and the result is OTHER.
C19_Witness ==
    /\ cls.pc = "done"
    /\ cls.calls = 2
    /\ cls.outcomes[1].kind = "exception"
    /\ cls.outcomes[2] = [kind |-> "reply", content |-> "pizza"]
    /\ cls.result = "OTHER"

\* An LLM call that failed with a rate limit, another provider error, or a
\* reply without content.
Transient(o) ==
    \/ o.kind \in {"rate_limit", "openai_error"}
    \/ (o.kind = "reply" /\ o.content = "")

\* C20: no classification makes more than 3 LLM calls, and one whose LLM
\* calls all failed with a transient error has made exactly 3 and ends
\* with the label of _simple_fallback: PANTRY_HELP for "i have rice",
\* WHATSDINNER for " What to eat ", OTHER for "hello" and for "".
C20_ThreeAttemptsThenFallback ==
    /\ cls.calls <= 3
    /\ (/\ cls.pc = "done"
        /\ cls.calls > 0
        /\ \A k \in DOMAIN cls.outcomes : Transient(cls.outcomes[k]))
       => /\ cls.calls = 3
          /\ cls.stage = "heuristic_fallback"
          /\ cls.text = "i have rice" => cls.result = "PANTRY_HELP"
          /\ cls.text = " What to eat " => cls.result = "WHATSDINNER"
          /\ cls.text \in {"hello", ""} => cls.result = "OTHER"

\* A rate limit, an empty reply and a provider error, then the heuristic.
C20_Witness ==
    /\ cls.pc = "done"
    /\ cls.text = "i have rice"
    /\ cls.calls = 3
    /\ cls.outcomes[1].kind = "rate_limit"
    /\ cls.outcomes[2] = [kind |-> "reply", content |-> ""]
    /\ cls.outcomes[3].kind = "openai_error"
    /\ cls.result = "PANTRY_HELP"

\* C21: an LLM call that fails with an authentication error is the last
\* call of its classification: no attempt and no backoff sleep follows it
\* (the sleeps are those of the failures before it), and the classification
\* ends with the label of _simple_fallback (PANTRY_HELP for "i have rice",
\* WHATSDINNER for " What to eat ", OTHER for "hello" and "").
C21_AuthErrorAborts ==
    \A k \in DOMAIN cls.outcomes :
        cls.outcomes[k].kind = "auth_error" =>
            /\ k = Len(cls.outcomes)
            /\ cls.calls = k
            /\ cls.sleeps = k - 1
            /\ cls.pc = "done"
            /\ cls.stage = "heuristic_fallback"
            /\ cls.text = "i have rice" => cls.result = "PANTRY_HELP"
            /\ cls.text = " What to eat " => cls.result = "WHATSDINNER"
            /\ cls.text \in {"hello", ""} => cls.result = "OTHER"

\* The first LLM call failed with an authentication error: one call, no
\* sleep, the heuristic's label.
C21_Witness ==
    /\ cls.pc = "done"
    /\ cls.text = " What to eat "
    /\ cls.calls = 1
    /\ cls.sleeps = 0
    /\ cls.outcomes[1].kind = "auth_error"
    /\ cls.result = "WHATSDINNER"

\* A provider call that failed in a way send_whatsapp_message retries.
TransientSend(o) ==
    \/ o.kind \in {"twilio_exception", "exception"}
    \/ (o.kind = "rest_error" /\ o.code = 20429)

\* The retry loop of the running send has ended.
SendEnded == snd.pc \in {"persist", "touch", "done"}

\* C22: a send never makes more than 3 attempts, and one whose provider
\* calls all failed with a transient error has made exactly 3 and ends
\* with ok = false and error = exhausted_retries.
C22_ThreeSendsThenExhausted ==
    /\ snd.attempts <= 3
    /\ Len(snd.outcomes) <= 3
    /\ (/\ SendEnded
        /\ \A k \in DOMAIN snd.outcomes : TransientSend(snd.outcomes[k]))
       => /\ snd.attempts = 3
          /\ Len(snd.outcomes) = 3
          /\ ~snd.ok
          /\ snd.error = "exhausted_retries"

\* A code 20429, a TwilioException and an unexpected exception, then
\* exhausted_retries.
C22_Witness ==
    /\ snd.pc = "done"
    /\ Len(snd.outcomes) = 3
    /\ snd.outcomes[1] = [kind |-> "rest_error", code |-> 20429]
    /\ snd.outcomes[2].kind = "twilio_exception"
    /\ snd.outcomes[3].kind = "exception"
    /\ snd.error = "exhausted_retries"

\* C23: a provider call that fails with code 21614 or 63007 is the last of
\* its send: no attempt and no backoff sleep follows it, ok is false and
\* the attempt count is that of the failing attempt.
C23_NonTransientAborts ==
    \A k \in DOMAIN snd.outcomes :
        (snd.outcomes[k].kind = "rest_error" /\ snd.outcomes[k].code \in {21614, 63007})
        => /\ k = Len(snd.outcomes)
           /\ snd.attempts = k
           /\ snd.sleeps = k - 1
           /\ ~snd.ok
           /\ snd.error = "rest_error"
           /\ snd.pc \in {"persist", "done"}

\* Code 63007 on the second attempt: two attempts, one sleep, failure.
C23_Witness ==
    /\ snd.pc = "done"
    /\ Len(snd.outcomes) = 2
    /\ snd.outcomes[2] = [kind |-> "rest_error", code |-> 63007]
    /\ snd.attempts = 2
    /\ snd.sleeps = 1
    /\ ~snd.ok

\* C24: a send that has reached its final outcome, the store being up, has
\* persisted exactly one audit record.
C24_OneRecordPerSend ==
    (snd.pc = "done" /\ snd.audit # "store_down") => snd.rows = 1

\* C25: a send that ended with ok = true has updated last_active.
C25_SuccessTouchesLastActive ==
    (snd.pc = "done" /\ snd.ok) => snd.touched

\* C26: the outcome of a finished send is that of its last provider call,
\* ok and the provider's message id for a message that was sent, whether
\* the audit write stored its row, was rejected, or found the store down.
C26_AuditNeverChangesOutcome ==
    snd.pc \in {"touch", "done"} =>
        LET last == snd.outcomes[Len(snd.outcomes)]
        IN /\ snd.ok = (last.kind = "sent")
           /\ last.kind = "sent" => snd.twilio_sid = "SMout"

\* A message was sent and the audit write found the store down: ok stays.
C26_Witness ==
    /\ snd.pc = "done"
    /\ snd.audit = "store_down"
    /\ snd.user_id = 1
    /\ snd.ok
    /\ snd.twilio_sid = "SMout"

\* The text of a recommendation holds the allergen a.
HasAllergen(r, a) == InJoined(a, r.ingredients) \/ InJoined(a, r.tags)

\* C27: for a user with allergies, no returned recommendation has an
\* allergen in its ingredients or tags.
C27_NoAllergenReturned ==
    (rcm.pc = "done" /\ rcm.allergies # {}) =>
        \A k \in DOMAIN rcm.out : \A a \in rcm.allergies : ~HasAllergen(rcm.out[k], a)

\* C28: get_meal_recommendations never returns an empty list.
C28_NeverEmpty == rcm.pc = "done" => Len(rcm.out) >= 1

\* Every candidate removed by both passes, the catalog search failing:
\* the built-in suggestions come back.
C28_Witness ==
    /\ rcm.pc = "done"
    /\ rcm.recs # <<>>
    /\ rcm.db = "failed"
    /\ rcm.stage = "default"
    /\ rcm.max_results = 3
    /\ Len(rcm.out) = 3

\* C29: for a vegetarian user no returned recommendation has a
\* non-vegetarian diet classification.
C29_VegetarianKept ==
    (rcm.pc = "done" /\ rcm.user_diet = "veg") =>
        \A k \in DOMAIN rcm.out :
            Lower(rcm.out[k].diet_type) \in {"", "veg", "vegetarian", "plant-based"}

\* C30: add(key) returns true exactly when key was not contained before the
\* call, a false add leaves the cache as it was, and a key stays contained
\* from its add until the step that evicts it, the add of another key to a
\* full cache whose oldest key it is.
C30_AddContract ==
    [][/\ dcall'.op = "add" =>
            /\ dcall'.ret = (dcall'.key \notin dset)
            /\ ~dcall'.ret => (dq' = dq /\ dset' = dset)
            /\ dcall'.key \in dset' \/ dcall'.key \in dcall'.evicted
       /\ dcall'.op = "contains" => dcall'.ret = (dcall'.key \in dset)
       /\ \A k \in dset \ dset' :
            \/ dcall'.op = "new"
            \/ /\ dcall'.op = "add"
               /\ dcall'.ret
               /\ dcall'.key # k
               /\ Len(dq) = dcall.max_entries
               /\ k = Head(dq)
               /\ dcall'.evicted = {k}]_vars

\* The add of a third key to a full cache of two returned true and evicted
\* the oldest key; the two newest are contained.
C30_Witness ==
    /\ dcall.op = "add"
    /\ dcall.ret
    /\ dcall.max_entries = 2
    /\ Len(dcall.before_queue) = 2
    /\ dcall.evicted = {Head(dcall.before_queue)}
    /\ dcall.key \in dset
    /\ Head(dcall.before_queue) \notin dset
    /\ dq = <<dcall.before_queue[2], dcall.key>>

\* The last n elements of a sequence.
LastN(s, n) == IF Len(s) <= n THEN s ELSE SubSeq(s, Len(s) - n + 1, Len(s))

\* C31: the deduper holds at most max_entries keys, its set is the set of
\* the keys of its queue, no key is queued twice, and an add of a new key
\* leaves the queue as the last max_entries keys of the old queue followed
\* by the new key, oldest first: the key evicted is the earliest added.
C31_FifoBound ==
    /\ [](/\ Len(dq) <= dcall.max_entries
          /\ dset = {dq[i] : i \in DOMAIN dq}
          /\ \A i, j \in DOMAIN dq : dq[i] = dq[j] => i = j)
    /\ [][dcall'.op = "add" =>
            dq' = IF dcall'.key \in dset THEN dq
                  ELSE LastN(Append(dq, dcall'.key), dcall.max_entries)]_vars

\* A full deduper of one entry took a new key: the old key is gone.
C31_Witness ==
    /\ dcall.op = "add"
    /\ dcall.max_entries = 1
    /\ Len(dcall.before_queue) = 1
    /\ dcall.key \notin dcall.before_set
    /\ dq = <<dcall.key>>
    /\ dset = {dcall.key}

\* The stored row of the message handler h works on.
StoredRow(h) == FirstOf(incoming, IncomingWithSid(incoming, msg[h].sid))

\* C32: record_incoming_message for a message_sid that has a row, the store
\* answering, returns ok = true with that row and its processed flag and
\* leaves the table as it was; the webhook then acknowledges the message or
\* goes on to process it, and reports no error.
C32_ExistingRowIsSuccess ==
    [][\A h \in Handlers :
        /\ (/\ pc[h] = "record" /\ pc'[h] = "after_record"
            /\ SidTaken(incoming, msg[h].sid))
           => /\ incoming' = incoming
              /\ faults' = faults => rec'[h].ok
              /\ rec'[h].ok =>
                    /\ rec'[h].data.row = StoredRow(h)
                    /\ rec'[h].data.row.processed = StoredRow(h).processed
        /\ (pc[h] = "after_record" /\ pc'[h] # "after_record" /\ rec[h].ok)
           => /\ pc'[h] \in {"idle", "process"}
              /\ outcome'[h] \in {"none", "duplicate_in_db"}]_vars

\* The second handler of a message records it after the first has marked
\* it processed: it gets the existing row, processed = true.
C32_Witness ==
    \E h \in Handlers :
        /\ pc[h] = "after_record"
        /\ rec[h].ok
        /\ rec[h].data.shape = "dict"
        /\ rec[h].data.row.processed
        /\ Len(incoming) = 1

\* C33: a handler goes on to process a message only when the store has no
\* processed row for its message_sid, also after a restart and whichever
\* shape the lookup of the existing row returned.
C33_ProcessedNotReprocessed ==
    \A h \in Handlers :
        pc[h] = "process" =>
            \A i \in IncomingWithSid(incoming, msg[h].sid) : ~incoming[i].processed

\* C34: the users table has at most one row per whatsapp_id.
C34_OneUserPerIdentity ==
    \A i, j \in DOMAIN users :
        users[i].whatsapp_id = users[j].whatsapp_id => i = j

\* Two first-ever messages of one sender, both arrived before a user row
\* existed, both handlers past their create_user: one row.
C34_Witness ==
    /\ pc[1] = "set_step"
    /\ pc[2] = "set_step"
    /\ arrival[1] = NoUser
    /\ arrival[2] = NoUser
    /\ msg[1].sid # msg[2].sid
    /\ msg[1].from = msg[2].from
    /\ Len(users) = 1

\* C35: a message is routed by the stored step of its sender: to the
\* post-onboarding path when the step is COMPLETE (null), to the onboarding
\* flow when it is 0..4 or the sender has no row.
C35_RouteByStoredStep ==
    \A h \in Handlers :
        pc[h] = "routed" =>
            path[h] = IF StoredStep(users, _clean_phone(msg[h].from)) = None
                      THEN "post_onboarding"
                      ELSE "onboarding"

\* The order in which the claim lists the intents.
IntentOrder ==
    <<"RECIPE_REQUEST", "PANTRY_HELP", "DIETARY_QUERY", "PLANWEEK",
      "UPLOAD_IMAGE", "MOOD", "WHATSDINNER", "ONBOARDING">>

RuleStageNames == {"pattern", "keyword", "hinglish", "fuzzy"}

\* The rules of a stage and the rules of that stage a text matches.
StageLists(stage) ==
    CASE stage = "hinglish" -> hinglish_patterns
      [] stage = "fuzzy" -> _fuzzy_patterns
      [] OTHER -> intent_keywords
StageHits(stage, text_str) ==
    IF stage = "fuzzy" THEN SubstringHits(Lower(text_str)) ELSE SearchHits(text_str)

\* The intents with a rule of the stage that matches the text.
MatchingIntents(stage, text_str) ==
    {StageLists(stage)[i][1] : i \in {j \in DOMAIN StageLists(stage) :
        StageLists(stage)[j][2] \cap StageHits(stage, text_str) # {}}}

\* The intents of a stage in the order of its dict.
StageOrder(stage) == [i \in DOMAIN StageLists(stage) |-> StageLists(stage)[i][1]]

\* The member of S that comes first in order.
FirstBy(order, S) ==
    LET ranks == {k \in DOMAIN order : order[k] \in S}
    IN order[CHOOSE k \in ranks : \A l \in ranks : k <= l]

\* C36 (as amended): the intent a rule stage returns is the first, in the
\* order of that stage's own dict, of the intents with a matching rule; for
\* the pattern and keyword stages that order is RECIPE_REQUEST, PANTRY_HELP,
\* DIETARY_QUERY, PLANWEEK, UPLOAD_IMAGE, MOOD, WHATSDINNER, ONBOARDING, and
\* "what can I make with eggs and rice" is PANTRY_HELP by the pattern stage.
C36_StageOrderWins ==
    /\ StageOrder("pattern") = IntentOrder
    /\ StageOrder("keyword") = IntentOrder
    /\ (cls.pc = "done" /\ cls.stage \in RuleStageNames) =>
          cls.result = FirstBy(StageOrder(cls.stage),
                               MatchingIntents(cls.stage, Strip(cls.text)))
    /\ (cls.pc = "done" /\ cls.text = "what can I make with eggs and rice") =>
          (cls.stage = "pattern" /\ cls.result = "PANTRY_HELP")

\* A text with matching rules of two intents was classified by the
\* pattern stage.
C36_Witness ==
    /\ cls.pc = "done"
    /\ cls.stage = "pattern"
    /\ Cardinality(MatchingIntents("pattern", Strip(cls.text))) >= 2

\* C36 (as stated): in every rule stage the intent returned is the first,
\* in the order RECIPE_REQUEST, ..., ONBOARDING, of the intents with a
\* matching rule.
C36_DeclaredOrderInEveryStage ==
    (cls.pc = "done" /\ cls.stage \in RuleStageNames) =>
        cls.result = FirstBy(IntentOrder, MatchingIntents(cls.stage, Strip(cls.text)))

\* C37: a send outcome with ok = true has an empty error.
C37_OkHasNoError == (snd.pc = "done" /\ snd.ok) => snd.error = ""

\* C38: for every stored step and reply body, process_onboarding_step and
\* handle_onboarding_message write the same field value and the same next
\* onboarding_step.
C38_SameTransition == eqv.compared => eqv.handler = eqv.service
====
